---- MODULE Spec2Model ----
(***************************************************************************)
(* The tiny U-Net of world-diffuser: parameter initializer, tensor         *)
(* primitives, noise conditioning, forward pass and parameter accounting   *)
(* (src/src/models/TinyModelGenerator.ts, second generation, lines 400ff), *)
(* the Application that owns a model and a forward state (App.ts), and     *)
(* the view modes of visualizations/DiamondVisualizationManager.ts.        *)
(*                                                                         *)
(* JavaScript numbers are modelled in fixed point: the integer v stands    *)
(* for the number v / Q.  Math.exp, Math.log, Math.sqrt and Math.cos are   *)
(* computed to that resolution.  Noise levels (sigma) are kept in units of *)
(* 1 / SigmaQ so that the clamp threshold 1e-6 and the values below it are *)
(* representable.  Arrays are functions on 0 .. n-1, as in the source.     *)
(* Objects that the source shares by reference (tensors, their channel     *)
(* arrays, their row arrays, models) live in heaps indexed by address.     *)
(***************************************************************************)
EXTENDS Integers, Sequences, FiniteSets, TLC

VARIABLES rows, chans, tens, models, rng, last, prev, steps, app, view

vars == <<rows, chans, tens, models, rng, last, prev, steps, app, view>>

----------------------------------------------------------------------------
(* Bounds of the exploration *)

\* operations applied in one behaviour
MaxSteps == 2
\* the random source starts at one of the positions 0 .. MaxSeed
MaxSeed == 1
\* period of the modelled pseudo-random stream
RngPeriod == 11
\* calls made on the view manager in one behaviour
MaxViewSteps == 3
\* handlers of the Application run in one behaviour
MaxAppSteps == 3

----------------------------------------------------------------------------
(* Numbers *)

\* fixed-point scale of a JavaScript number
Q == 1000
\* fixed-point scale of a noise level
SigmaQ == 10000000

\* an array literal / loop that pushes n values
Arr(n, F(_)) == [i \in 0 .. n - 1 |-> F(i)]
Length(a) == Cardinality(DOMAIN a)

\* F applied to the value of e: "const v = e; F(v)", e evaluated once
Bind(e, F(_)) == CHOOSE y \in {F(v) : v \in {e}} : TRUE

\* a / b rounded to the nearest integer, b > 0
RDiv(a, b) == (2 * a + b) \div (2 * b)
\* the operators * and / on numbers
Mul(a, b) == RDiv(a * b, Q)
Div(a, b) == RDiv(a * Q, b)

\* e^n for the integers n of -6 .. 6
EPow(n) ==
    CASE n = -6 -> 2 [] n = -5 -> 7 [] n = -4 -> 18 [] n = -3 -> 50
      [] n = -2 -> 135 [] n = -1 -> 368 [] n = 0 -> 1000 [] n = 1 -> 2718
      [] n = 2 -> 7389 [] n = 3 -> 20086 [] n = 4 -> 54598
      [] n = 5 -> 148413 [] n = 6 -> 403429

\* Math.exp: e^n times the Taylor polynomial of the fractional part; the
\* argument saturates at +-6
MathExp(x) ==
    LET c == IF x > 6 * Q THEN 6 * Q ELSE IF x < -6 * Q THEN -6 * Q ELSE x
        n == c \div Q
        f == c - n * Q
        t2 == RDiv(f * f, 2 * Q)
        t3 == RDiv(t2 * f, 3 * Q)
        t4 == RDiv(t3 * f, 4 * Q)
        t5 == RDiv(t4 * f, 5 * Q)
    IN  RDiv(EPow(n) * (Q + f + t2 + t3 + t4 + t5), Q)

\* ln of a number z in [Q, 2Q) (a real in [1, 2)) by the series of atanh
LnMantissa(z) ==
    LET t == RDiv((z - Q) * Q, z + Q)
        t3 == RDiv(RDiv(t * t, Q) * t, Q)
        t5 == RDiv(RDiv(t3 * t, Q) * t, Q)
        t7 == RDiv(RDiv(t5 * t, Q) * t, Q)
    IN  2 * (t + RDiv(t3, 3) + RDiv(t5, 5) + RDiv(t7, 7))

\* ln of a number z >= Q, having halved it k times already
RECURSIVE LnFix(_, _)
LnFix(z, k) ==
    IF z >= 2 * Q
    THEN LnFix(z \div 2, k + 1)
    ELSE RDiv(k * 693147, 1000) + LnMantissa(z)

\* ln of a positive integer n, having halved it k times already
RECURSIVE LnInt(_, _)
LnInt(n, k) == IF n >= 2048 THEN LnInt(n \div 2, k + 1) ELSE LnFix(n * Q, k)

\* Math.log of a number x > 0: ln(x / Q) = ln x - ln Q
MathLog(x) == LnInt(x, 0) - 6908
\* Math.log of a noise level s > 0: ln(s / SigmaQ) = ln s - 7 ln 10
MathLogSigma(s) == LnInt(s, 0) - 16118

\* the integer square root
RECURSIVE ISqrt(_)
ISqrt(n) ==
    IF n < 2 THEN n
    ELSE LET r == 2 * ISqrt(n \div 4)
         IN  IF (r + 1) * (r + 1) <= n THEN r + 1 ELSE r

\* Math.sqrt
MathSqrt(x) == ISqrt(x * Q)

\* Math.PI
Pi == 3142

\* cos on [0, pi/2] by its Taylor polynomial
CosTaylor(x) ==
    LET x2 == Mul(x, x)
        x4 == Mul(x2, x2)
        x6 == Mul(x4, x2)
        x8 == Mul(x4, x4)
    IN  Q - RDiv(x2, 2) + RDiv(x4, 24) - RDiv(x6, 720) + RDiv(x8, 40320)

\* Math.cos on [0, 2 pi]
MathCos(x) ==
    LET y == IF x > Pi THEN 2 * Pi - x ELSE x
    IN  IF 2 * y > Pi THEN -CosTaylor(Pi - y) ELSE CosTaylor(y)

----------------------------------------------------------------------------
(* The process-wide random source *)

\* the value Math.random() returns at position r of the stream, a number of
\* the open interval (0, 1); the draw 0, which makes xavierInit return an
\* infinity, is left out of the stream
RandomValue(r) == ((r * 389 + 71) % 997) + 1
\* the position after k further draws
Advance(r, k) == (r + k) % RngPeriod

----------------------------------------------------------------------------
(* Parameter initializer.  Each creator takes the position r of the random *)
(* source at its call and returns the value it builds; the draws it makes  *)
(* advance the source by the count given next to it.                       *)

\* xavierInit calls Math.random() twice
XavierDraws == 2

XavierInit(r, fanIn, fanOut) ==
    LET std == MathSqrt(Div(2 * Q, (fanIn + fanOut) * Q))
        u1 == RandomValue(r)
        u2 == RandomValue(Advance(r, 1))
    IN  Mul(Mul(MathSqrt(Mul(-2 * Q, MathLog(u1))),
                MathCos(Mul(Mul(2 * Q, Pi), u2))), std)

KernelDraws == 3 * 3 * XavierDraws

CreateKernel3x3(r, fanIn, fanOut) ==
    [weights |-> Arr(3, LAMBDA i : Arr(3, LAMBDA j :
        XavierInit(Advance(r, (3 * i + j) * XavierDraws), fanIn * 9, fanOut * 9)))]

\* an absent optional field (projection?: BlockProjection) is the empty
\* sequence, a present one the sequence of its value
Absent == << >>
Present(x) == << x >>
IsPresent(o) == Len(o) > 0
TheValue(o) == o[1]

ConvDraws(inChannels, outChannels) == outChannels * inChannels * KernelDraws

\* faulty variant of CreateTinyConvLayer: the loops over oc and ic are
\* exchanged, kernels has inChannels rows of outChannels kernels
CreateTinyConvLayerTransposed(r, name, inChannels, outChannels) ==
    [name |-> name,
     inChannels |-> inChannels,
     outChannels |-> outChannels,
     kernels |-> Arr(inChannels, LAMBDA ic : Arr(outChannels, LAMBDA oc :
        CreateKernel3x3(Advance(r, (ic * outChannels + oc) * KernelDraws),
                        inChannels, outChannels))),
     bias |-> Arr(outChannels, LAMBDA oc : 0),
     projection |-> Absent]

CreateTinyConvLayer(r, name, inChannels, outChannels) ==
    [name |-> name,
     inChannels |-> inChannels,
     outChannels |-> outChannels,
     kernels |-> Arr(outChannels, LAMBDA oc : Arr(inChannels, LAMBDA ic :
        CreateKernel3x3(Advance(r, (oc * inChannels + ic) * KernelDraws),
                        inChannels, outChannels))),
     bias |-> Arr(outChannels, LAMBDA oc : 0),
     projection |-> Absent]

LinearDraws(inputDim, outputDim) == outputDim * inputDim * XavierDraws

CreateLinearLayer(r, inputDim, outputDim) ==
    [weights |-> Arr(outputDim, LAMBDA o : Arr(inputDim, LAMBDA i :
        XavierInit(Advance(r, (o * inputDim + i) * XavierDraws), inputDim, outputDim))),
     bias |-> Arr(outputDim, LAMBDA o : 0),
     inputDim |-> inputDim,
     outputDim |-> outputDim]

CreateTimeEmbeddingMLP(r, hiddenDim, embeddingDim) ==
    [hiddenLayer |-> CreateLinearLayer(r, 1, hiddenDim),
     outputLayer |-> CreateLinearLayer(Advance(r, LinearDraws(1, hiddenDim)),
                                       hiddenDim, embeddingDim)]

\* faulty variant of CreateBlockProjection: the bias is initialized like a
\* weight
CreateBlockProjectionRandomBias(r, embeddingDim, outputDim) ==
    [weights |-> Arr(outputDim, LAMBDA o : Arr(embeddingDim, LAMBDA i :
        XavierInit(Advance(r, (o * embeddingDim + i) * XavierDraws),
                   embeddingDim, outputDim))),
     bias |-> Arr(outputDim, LAMBDA o :
        XavierInit(Advance(r, (outputDim * embeddingDim + o) * XavierDraws),
                   embeddingDim, outputDim)),
     embeddingDim |-> embeddingDim,
     outputDim |-> outputDim]

CreateBlockProjection(r, embeddingDim, outputDim) ==
    [weights |-> Arr(outputDim, LAMBDA o : Arr(embeddingDim, LAMBDA i :
        XavierInit(Advance(r, (o * embeddingDim + i) * XavierDraws),
                   embeddingDim, outputDim))),
     bias |-> Arr(outputDim, LAMBDA o : 0),
     embeddingDim |-> embeddingDim,
     outputDim |-> outputDim]

\* faulty variant of ConvWithProjection: the projection is never attached
ConvWithoutProjection(r, name, inChannels, outChannels, embeddingDim) ==
    CreateTinyConvLayer(r, name, inChannels, outChannels)

\* "const layer = createTinyConvLayer(...); layer.projection =
\* createBlockProjection(embeddingDim, outChannels)"
ConvWithProjection(r, name, inChannels, outChannels, embeddingDim) ==
    [CreateTinyConvLayer(r, name, inChannels, outChannels) EXCEPT
        !.projection = Present(CreateBlockProjection(
            Advance(r, ConvDraws(inChannels, outChannels)), embeddingDim, outChannels))]

BlockDraws(inChannels, outChannels, embeddingDim) ==
    ConvDraws(inChannels, outChannels) + LinearDraws(embeddingDim, outChannels)

\* the model createTinyUNet() builds with the random source at position r:
\* v is the model, r the position the source is left at
TinyUNetValue(r) ==
    LET hiddenDim == 4
        embeddingDim == 8
        r1 == Advance(r, LinearDraws(1, hiddenDim) + LinearDraws(hiddenDim, embeddingDim))
        r2 == Advance(r1, BlockDraws(1, 2, embeddingDim))
        r3 == Advance(r2, BlockDraws(2, 2, embeddingDim))
        r4 == Advance(r3, BlockDraws(2, 2, embeddingDim))
        r5 == Advance(r4, BlockDraws(4, 2, embeddingDim))
    IN  [v |-> [timeEmbedMLP |-> CreateTimeEmbeddingMLP(r, hiddenDim, embeddingDim),
                inputConv |-> ConvWithProjection(r1, "inputConv", 1, 2, embeddingDim),
                encoderConv |-> ConvWithProjection(r2, "encoderConv", 2, 2, embeddingDim),
                bottleneckConv |->
                    ConvWithProjection(r3, "bottleneckConv", 2, 2, embeddingDim),
                decoderConv |-> ConvWithProjection(r4, "decoderConv", 4, 2, embeddingDim),
                outputConv |-> CreateTinyConvLayer(r5, "outputConv", 2, 1)],
         r |-> Advance(r5, ConvDraws(2, 1))]

\* createTinyUNet() on the store st: a new model object, the source advanced
CreateTinyUNet(st) ==
    Bind(TinyUNetValue(st.rng), LAMBDA made :
        [st |-> [st EXCEPT !.models = Append(st.models, made.v), !.rng = made.r],
         m |-> Len(st.models) + 1])

\* the sum of the first n entries of the array f
RECURSIVE SumTo(_, _)
SumTo(f, n) == IF n = 0 THEN 0 ELSE SumTo(f, n - 1) + f[n - 1]

\* faulty variant of CountParameters: each projection is detached from its
\* layer once it has been counted
CountParametersDetaching(st, m) ==
    LET model == st.models[m]
        linear(l) == l.inputDim * l.outputDim + Length(l.bias)
        conv(layer) ==
            layer.outChannels * layer.inChannels * 9 + layer.outChannels
            + (IF IsPresent(layer.projection)
               THEN TheValue(layer.projection).embeddingDim
                      * TheValue(layer.projection).outputDim
                    + Length(TheValue(layer.projection).bias)
               ELSE 0)
    IN  [st |-> [st EXCEPT !.models[m].inputConv.projection = Absent,
                           !.models[m].encoderConv.projection = Absent,
                           !.models[m].bottleneckConv.projection = Absent,
                           !.models[m].decoderConv.projection = Absent,
                           !.models[m].outputConv.projection = Absent],
         v |-> linear(model.timeEmbedMLP.hiddenLayer)
               + linear(model.timeEmbedMLP.outputLayer)
               + conv(model.inputConv) + conv(model.encoderConv)
               + conv(model.bottleneckConv) + conv(model.decoderConv)
               + conv(model.outputConv)]

\* countParameters(model) for the model at address m; it returns the count
\* v and the store it leaves
CountParameters(st, m) ==
    LET model == st.models[m]
        hiddenLayer == model.timeEmbedMLP.hiddenLayer
        outputLayer == model.timeEmbedMLP.outputLayer
        convLayers == << model.inputConv, model.encoderConv, model.bottleneckConv,
                         model.decoderConv, model.outputConv >>
        perLayer == [i \in 0 .. 4 |->
            LET layer == convLayers[i + 1]
            IN  layer.outChannels * layer.inChannels * 9
                + layer.outChannels
                + (IF IsPresent(layer.projection)
                   THEN TheValue(layer.projection).embeddingDim
                          * TheValue(layer.projection).outputDim
                        + Length(TheValue(layer.projection).bias)
                   ELSE 0)]
    IN  [st |-> st,
         v |-> hiddenLayer.inputDim * hiddenLayer.outputDim + Length(hiddenLayer.bias)
               + outputLayer.inputDim * outputLayer.outputDim + Length(outputLayer.bias)
               + SumTo(perLayer, 5)]

----------------------------------------------------------------------------
(* Activation tensors.  st.tens[t] is the tensor object at address t: its  *)
(* declared channels, height and width and its data array, whose entry c   *)
(* is the address of a channel array in st.chans, whose entry h is the     *)
(* address of a row array in st.rows, whose entry w is a number.           *)

\* input.data[c][h][w]
At(st, t, c, h, w) == st.rows[st.chans[st.tens[t].data[c]][h]][w]

\* the numbers held by tensor t, by position
Contents(st, t) ==
    LET data == st.tens[t].data
    IN  [c \in DOMAIN data |->
            [h \in DOMAIN st.chans[data[c]] |-> st.rows[st.chans[data[c]][h]]]]

\* the declared dimensions are the extents of the data
WellFormed(st, t) ==
    LET x == st.tens[t]
    IN  /\ DOMAIN x.data = 0 .. x.channels - 1
        /\ \A c \in DOMAIN x.data :
              /\ DOMAIN st.chans[x.data[c]] = 0 .. x.height - 1
              /\ \A h \in 0 .. x.height - 1 :
                    DOMAIN st.rows[st.chans[x.data[c]][h]] = 0 .. x.width - 1

\* a result: the store left, the tensor returned, or err when the call threw
Returned(st, t) == [st |-> st, t |-> t, err |-> FALSE]
Thrown(st) == [st |-> st, t |-> 0, err |-> TRUE]

\* createActivationTensor: new zero-filled rows, new channel arrays and a new
\* tensor object
CreateActivationTensor(st, channels, height, width) ==
    LET rowAt(c, h) == Len(st.rows) + c * height + h + 1
        chanAt(c) == Len(st.chans) + c + 1
    IN  Returned(
          [st EXCEPT
             !.rows = st.rows \o [k \in 1 .. channels * height |->
                                    Arr(width, LAMBDA w : 0)],
             !.chans = st.chans \o [k \in 1 .. channels |->
                                    Arr(height, LAMBDA h : rowAt(k - 1, h))],
             !.tens = Append(st.tens, [data |-> Arr(channels, chanAt),
                                       channels |-> channels,
                                       height |-> height,
                                       width |-> width])],
          Len(st.tens) + 1)

\* the loop nest "for c < channels, h < height, w < width:
\* t.data[c][h][w] = F(c, h, w)"
Fill(st, t, channels, height, width, F(_, _, _)) ==
    LET data == st.tens[t].data
        written(a) == \E c \in 0 .. channels - 1, h \in 0 .. height - 1 :
                         width > 0 /\ st.chans[data[c]][h] = a
        place(a) == CHOOSE p \in (0 .. channels - 1) \X (0 .. height - 1) :
                       st.chans[data[p[1]]][p[2]] = a
    IN  [st EXCEPT !.rows = [a \in DOMAIN st.rows |->
            IF written(a)
            THEN [w \in DOMAIN st.rows[a] \cup (0 .. width - 1) |->
                    IF w < width THEN F(place(a)[1], place(a)[2], w)
                    ELSE st.rows[a][w]]
            ELSE st.rows[a]]]

\* faulty variant of ApplyConv2d: the kernel window is not centred, the tap
\* (kh, kw) reads the input at (h + kh, w + kw)
ApplyConv2dUncentred(st, input, layer) ==
    LET height == st.tens[input].height
        width == st.tens[input].width
        out == CreateActivationTensor(st, layer.outChannels, height, width)
        inBounds(ih, iw) == ih >= 0 /\ ih < height /\ iw >= 0 /\ iw < width
        throws == \E ic \in 0 .. layer.inChannels - 1 :
                     height > 0 /\ width > 0 /\ ic \notin DOMAIN st.tens[input].data
        tap(oc, h, w, ic, k) ==
            IF inBounds(h + (k \div 3), w + (k % 3))
            THEN Mul(At(st, input, ic, h + (k \div 3), w + (k % 3)),
                     layer.kernels[oc][ic].weights[k \div 3][k % 3])
            ELSE 0
        sum(oc, h, w) ==
            layer.bias[oc]
            + SumTo([ic \in 0 .. layer.inChannels - 1 |->
                        SumTo([k \in 0 .. 8 |-> tap(oc, h, w, ic, k)], 9)],
                    layer.inChannels)
    IN  IF throws THEN Thrown(out.st)
        ELSE Returned(Fill(out.st, out.t, layer.outChannels, height, width, sum), out.t)

\* faulty variant of ApplyConv2d: replicate padding, a tap outside the
\* input reads the nearest element inside
ApplyConv2dReplicatePadded(st, input, layer) ==
    LET height == st.tens[input].height
        width == st.tens[input].width
        out == CreateActivationTensor(st, layer.outChannels, height, width)
        clamp(i, n) == IF i < 0 THEN 0 ELSE IF i >= n THEN n - 1 ELSE i
        throws == \E ic \in 0 .. layer.inChannels - 1 :
                     height > 0 /\ width > 0 /\ ic \notin DOMAIN st.tens[input].data
        tap(oc, h, w, ic, k) ==
            Mul(At(st, input, ic, clamp(h + (k \div 3) - 1, height),
                   clamp(w + (k % 3) - 1, width)),
                layer.kernels[oc][ic].weights[k \div 3][k % 3])
        sum(oc, h, w) ==
            layer.bias[oc]
            + SumTo([ic \in 0 .. layer.inChannels - 1 |->
                        SumTo([k \in 0 .. 8 |-> tap(oc, h, w, ic, k)], 9)],
                    layer.inChannels)
    IN  IF throws THEN Thrown(out.st)
        ELSE Returned(Fill(out.st, out.t, layer.outChannels, height, width, sum), out.t)

\* applyConv2d: 3x3 convolution with padding 1
ApplyConv2d(st, input, layer) ==
    LET height == st.tens[input].height
        width == st.tens[input].width
        out == CreateActivationTensor(st, layer.outChannels, height, width)
        inBounds(ih, iw) == ih >= 0 /\ ih < height /\ iw >= 0 /\ iw < width
        \* input.data[ic] is undefined and indexing it throws
        throws == \E oc \in 0 .. layer.outChannels - 1, h \in 0 .. height - 1,
                     w \in 0 .. width - 1, ic \in 0 .. layer.inChannels - 1,
                     kh \in 0 .. 2, kw \in 0 .. 2 :
                     /\ inBounds(h + kh - 1, w + kw - 1)
                     /\ ic \notin DOMAIN st.tens[input].data
        tap(oc, h, w, ic, k) ==
            LET kh == k \div 3
                kw == k % 3
                ih == h + kh - 1
                iw == w + kw - 1
            IN  IF inBounds(ih, iw)
                THEN Mul(At(st, input, ic, ih, iw),
                         layer.kernels[oc][ic].weights[kh][kw])
                ELSE 0
        sum(oc, h, w) ==
            layer.bias[oc]
            + SumTo([ic \in 0 .. layer.inChannels - 1 |->
                        SumTo([k \in 0 .. 8 |-> tap(oc, h, w, ic, k)], 9)],
                    layer.inChannels)
    IN  IF throws THEN Thrown(out.st)
        ELSE Returned(Fill(out.st, out.t, layer.outChannels, height, width, sum), out.t)

\* faulty variant of SiLU: the sigmoid alone
SiLUAsSigmoid(x) == Div(Q, Q + MathExp(-x))

\* x * sigmoid(x)
SiLU(x) == Mul(x, Div(Q, Q + MathExp(-x)))

\* faulty variant of ApplySiLU: the activation is written into the input
ApplySiLUInPlace(st, input) ==
    LET x == st.tens[input]
        val(c, h, w) == SiLU(At(st, input, c, h, w))
    IN  Returned(Fill(st, input, x.channels, x.height, x.width, val), input)

ApplySiLU(st, input) ==
    LET x == st.tens[input]
        out == CreateActivationTensor(st, x.channels, x.height, x.width)
        val(c, h, w) == SiLU(At(st, input, c, h, w))
    IN  Returned(Fill(out.st, out.t, x.channels, x.height, x.width, val), out.t)

\* downsample2x: 2x2 average pooling
\* the positions (row, column) of a channel that the loops of downsample2x
\* read for an input of the given height and width: rows 2h, 2h+1 and
\* columns 2w, 2w+1 for h < floor(height/2), w < floor(width/2)
Downsample2xReads(height, width) ==
    UNION {{2 * h, 2 * h + 1} \X {2 * w, 2 * w + 1} :
             h \in 0 .. (height \div 2) - 1, w \in 0 .. (width \div 2) - 1}

\* faulty variant of Downsample2x: the output dimensions are rounded up, and
\* a position beyond the input counts as 0
Downsample2xRoundedUp(st, input) ==
    LET x == st.tens[input]
        outH == (x.height + 1) \div 2
        outW == (x.width + 1) \div 2
        out == CreateActivationTensor(st, x.channels, outH, outW)
        read(c, ih, iw) == IF ih < x.height /\ iw < x.width THEN At(st, input, c, ih, iw)
                           ELSE 0
        avg(c, h, w) ==
            Div(read(c, h * 2, w * 2) + read(c, h * 2 + 1, w * 2)
                + read(c, h * 2, w * 2 + 1) + read(c, h * 2 + 1, w * 2 + 1), 4 * Q)
    IN  Returned(Fill(out.st, out.t, x.channels, outH, outW, avg), out.t)

\* faulty variant of Downsample2x: strided subsampling, the top-left element
\* of each block instead of the average
Downsample2xStrided(st, input) ==
    LET x == st.tens[input]
        out == CreateActivationTensor(st, x.channels, x.height \div 2, x.width \div 2)
        pick(c, h, w) == At(st, input, c, h * 2, w * 2)
    IN  Returned(Fill(out.st, out.t, x.channels, x.height \div 2, x.width \div 2, pick),
                 out.t)

\* faulty variant of Downsample2x: the sum of each block, not divided by 4
Downsample2xSummed(st, input) ==
    LET x == st.tens[input]
        out == CreateActivationTensor(st, x.channels, x.height \div 2, x.width \div 2)
        sum(c, h, w) ==
            At(st, input, c, h * 2, w * 2) + At(st, input, c, h * 2 + 1, w * 2)
            + At(st, input, c, h * 2, w * 2 + 1) + At(st, input, c, h * 2 + 1, w * 2 + 1)
    IN  Returned(Fill(out.st, out.t, x.channels, x.height \div 2, x.width \div 2, sum),
                 out.t)

\* downsample2x: the average of each 2x2 block
Downsample2x(st, input) ==
    LET x == st.tens[input]
        out == CreateActivationTensor(st, x.channels, x.height \div 2, x.width \div 2)
        \* input.data[c] or input.data[c][row] is undefined and indexing it
        \* throws
        throws == \E c \in 0 .. x.channels - 1, p \in Downsample2xReads(x.height, x.width) :
                     \/ c \notin DOMAIN x.data
                     \/ p[1] \notin DOMAIN st.chans[x.data[c]]
        avg(c, h, w) ==
            Div(At(st, input, c, h * 2, w * 2)
                + At(st, input, c, h * 2 + 1, w * 2)
                + At(st, input, c, h * 2, w * 2 + 1)
                + At(st, input, c, h * 2 + 1, w * 2 + 1), 4 * Q)
    IN  IF throws THEN Thrown(out.st)
        ELSE Returned(Fill(out.st, out.t, x.channels, x.height \div 2, x.width \div 2,
                           avg), out.t)

\* faulty variant of Upsample2x: the output keeps the input's size
Upsample2xSameSize(st, input) ==
    LET x == st.tens[input]
        out == CreateActivationTensor(st, x.channels, x.height, x.width)
        val(c, h, w) == At(st, input, c, h, w)
    IN  Returned(Fill(out.st, out.t, x.channels, x.height, x.width, val), out.t)

\* faulty variant of Upsample2x: only the top-left element of each output
\* block is written, the other three keep the 0 they were created with
Upsample2xZeroStuffed(st, input) ==
    LET x == st.tens[input]
        out == CreateActivationTensor(st, x.channels, x.height * 2, x.width * 2)
        val(c, oh, ow) ==
            IF oh % 2 = 0 /\ ow % 2 = 0 THEN At(st, input, c, oh \div 2, ow \div 2)
            ELSE 0
    IN  Returned(Fill(out.st, out.t, x.channels, x.height * 2, x.width * 2, val), out.t)

\* upsample2x: nearest neighbour; the iteration (h, w) of the loop over the
\* input writes the output at rows 2h, 2h+1 and columns 2w, 2w+1, and an
\* output element no iteration writes keeps the 0 it was created with
Upsample2x(st, input) ==
    LET x == st.tens[input]
        out == CreateActivationTensor(st, x.channels, x.height * 2, x.width * 2)
        writers(oh, ow) ==
            {p \in (0 .. x.height - 1) \X (0 .. x.width - 1) :
                oh \in {p[1] * 2, p[1] * 2 + 1} /\ ow \in {p[2] * 2, p[2] * 2 + 1}}
        val(c, oh, ow) ==
            IF writers(oh, ow) = {} THEN 0
            ELSE LET p == CHOOSE p \in writers(oh, ow) : TRUE
                 IN  At(st, input, c, p[1], p[2])
    IN  Returned(Fill(out.st, out.t, x.channels, x.height * 2, x.width * 2, val), out.t)

\* faulty variant of CopyChannel: "a.data[c].map(row => row)", a new channel
\* array of the same rows
CopyChannelShallow(st, ch) ==
    [st |-> [st EXCEPT !.chans = Append(st.chans, st.chans[ch])],
     ch |-> Len(st.chans) + 1]

\* a.data[c].map(row => [...row]): a new channel array of new copies of the
\* rows of the channel array at address ch; the result's ch is its address
CopyChannel(st, ch) ==
    LET n == Length(st.chans[ch])
    IN  [st |-> [st EXCEPT
                   !.rows = st.rows \o [k \in 1 .. n |-> st.rows[st.chans[ch][k - 1]]],
                   !.chans = Append(st.chans, Arr(n, LAMBDA h : Len(st.rows) + h + 1))],
         ch |-> Len(st.chans) + 1]

\* "for c < n: output.data[offset + c] = src.data[c].map(row => [...row])"
RECURSIVE CopyChannels(_, _, _, _, _)
CopyChannels(st, output, src, offset, n) ==
    IF n = 0 THEN st
    ELSE Bind(CopyChannels(st, output, src, offset, n - 1), LAMBDA before :
         Bind(CopyChannel(before, before.tens[src].data[n - 1]), LAMBDA copy :
            [copy.st EXCEPT !.tens[output].data =
                [c \in DOMAIN before.tens[output].data \cup {offset + n - 1} |->
                    IF c = offset + n - 1 THEN copy.ch
                    ELSE before.tens[output].data[c]]]))

\* faulty variant of Concat: the channels of b are placed first
ConcatSecondFirst(st, a, b) ==
    LET ta == st.tens[a]
        tb == st.tens[b]
    IN  Bind(CreateActivationTensor(st, ta.channels + tb.channels, ta.height, ta.width),
             LAMBDA out :
               Bind(CopyChannels(out.st, out.t, b, 0, tb.channels), LAMBDA first :
                 Returned(CopyChannels(first, out.t, a, tb.channels, ta.channels),
                          out.t)))

\* concat along the channel dimension
Concat(st, a, b) ==
    LET ta == st.tens[a]
        tb == st.tens[b]
        \* a.data[c] is undefined for a declared channel and .map throws
        throws == \/ \E c \in 0 .. ta.channels - 1 : c \notin DOMAIN ta.data
                  \/ \E c \in 0 .. tb.channels - 1 : c \notin DOMAIN tb.data
    IN  Bind(CreateActivationTensor(st, ta.channels + tb.channels, ta.height, ta.width),
             LAMBDA out :
               IF throws THEN Thrown(out.st)
               ELSE Bind(CopyChannels(out.st, out.t, a, 0, ta.channels), LAMBDA first :
                      Returned(CopyChannels(first, out.t, b, ta.channels, tb.channels),
                               out.t)))

----------------------------------------------------------------------------
(* Noise conditioning *)

\* the clamp threshold 1e-6 of computeCnoise, as a noise level
SigmaEps == 10

\* Math.max
Max(a, b) == IF a >= b THEN a ELSE b

\* faulty variant of ComputeCnoise: the clamp threshold is 1e-5
ComputeCnoiseLargerEpsilon(sigma) == Mul(250, MathLogSigma(Max(sigma, 10 * SigmaEps)))

\* faulty variant of ComputeCnoise: the clamp threshold is 1e-7
ComputeCnoiseSmallerEpsilon(sigma) == Mul(250, MathLogSigma(Max(sigma, SigmaEps \div 10)))

\* computeCnoise: 0.25 * ln(max(sigma, 1e-6))
ComputeCnoise(sigma) ==
    LET clampedSigma == Max(sigma, SigmaEps)
    IN  Mul(250, MathLogSigma(clampedSigma))

\* applyLinear: y = Wx + b
ApplyLinear(input, layer) ==
    Arr(layer.outputDim, LAMBDA o :
        layer.bias[o]
        + SumTo([i \in 0 .. layer.inputDim - 1 |-> Mul(layer.weights[o][i], input[i])],
                layer.inputDim))

ApplySiLUArray(input) == [i \in DOMAIN input |-> SiLU(input[i])]

\* runTimeEmbeddingMLP: the returned hidden is the variable "hidden" of the
\* source, the hidden layer's output before the activation
RunTimeEmbeddingMLP(cnoise, mlp) ==
    LET hidden == ApplyLinear(Arr(1, LAMBDA i : cnoise), mlp.hiddenLayer)
        hiddenActivated == ApplySiLUArray(hidden)
        embedding == ApplyLinear(hiddenActivated, mlp.outputLayer)
    IN  [hidden |-> hidden, embedding |-> embedding]

ApplyBlockProjection(embedding, projection) ==
    Arr(projection.outputDim, LAMBDA o :
        projection.bias[o]
        + SumTo([i \in 0 .. projection.embeddingDim - 1 |->
                    Mul(projection.weights[o][i], embedding[i])],
                projection.embeddingDim))

\* faulty variant of AddBlockConditioning: a draw from the random source is
\* added to the conditioning
AddBlockConditioningJittered(st, input, sharedEmbedding, projection) ==
    LET x == st.tens[input]
        out == CreateActivationTensor(st, x.channels, x.height, x.width)
        conditioning == ApplyBlockProjection(sharedEmbedding, projection)
        condVal(c) == IF c < Length(conditioning) THEN conditioning[c] ELSE 0
        val(c, h, w) == At(st, input, c, h, w) + condVal(c) + RandomValue(st.rng)
    IN  Returned([Fill(out.st, out.t, x.channels, x.height, x.width, val) EXCEPT
                    !.rng = Advance(st.rng, 1)], out.t)

\* faulty variant of AddBlockConditioning: the conditioning is repeated
\* over the channels beyond its length
AddBlockConditioningWrapped(st, input, sharedEmbedding, projection) ==
    LET x == st.tens[input]
        out == CreateActivationTensor(st, x.channels, x.height, x.width)
        conditioning == ApplyBlockProjection(sharedEmbedding, projection)
        condVal(c) == conditioning[c % Length(conditioning)]
        val(c, h, w) == At(st, input, c, h, w) + condVal(c)
    IN  Returned(Fill(out.st, out.t, x.channels, x.height, x.width, val), out.t)

\* addBlockConditioning: the projected embedding added at every position
AddBlockConditioning(st, input, sharedEmbedding, projection) ==
    LET x == st.tens[input]
        out == CreateActivationTensor(st, x.channels, x.height, x.width)
        conditioning == ApplyBlockProjection(sharedEmbedding, projection)
        condVal(c) == IF c < Length(conditioning) THEN conditioning[c] ELSE 0
        val(c, h, w) == At(st, input, c, h, w) + condVal(c)
    IN  Returned(Fill(out.st, out.t, x.channels, x.height, x.width, val), out.t)

----------------------------------------------------------------------------
(* Forward pass *)

\* faulty variant of ConvBlock: the conditioning is added before the
\* activation
ConvBlockConditionedFirst(st, x, layer, sharedEmbedding) ==
    Bind(ApplyConv2d(st, x, layer), LAMBDA conv :
      IF conv.err THEN conv
      ELSE IF ~IsPresent(layer.projection) THEN ApplySiLU(conv.st, conv.t)
      ELSE Bind(AddBlockConditioning(conv.st, conv.t, sharedEmbedding,
                                     TheValue(layer.projection)), LAMBDA cond :
             ApplySiLU(cond.st, cond.t)))

\* faulty variant of ConvBlock: a layer without a projection receives the
\* first outChannels entries of the embedding directly
ConvBlockEmbeddingFallback(st, x, layer, sharedEmbedding) ==
    Bind(ApplyConv2d(st, x, layer), LAMBDA conv :
      IF conv.err THEN conv
      ELSE Bind(ApplySiLU(conv.st, conv.t), LAMBDA act :
             IF act.err THEN act
             ELSE AddBlockConditioning(act.st, act.t, sharedEmbedding,
                    IF IsPresent(layer.projection) THEN TheValue(layer.projection)
                    ELSE [embeddingDim |-> Length(sharedEmbedding),
                          outputDim |-> layer.outChannels,
                          weights |-> Arr(layer.outChannels, LAMBDA o :
                             Arr(Length(sharedEmbedding), LAMBDA i :
                                IF i = o THEN Q ELSE 0)),
                          bias |-> Arr(layer.outChannels, LAMBDA o : 0)])))

\* one conditioned block of forwardPass: "x = applyConv2d(x, layer);
\* x = applySiLU(x); if (layer.projection) x = addBlockConditioning(...)"
ConvBlock(st, x, layer, sharedEmbedding) ==
    Bind(ApplyConv2d(st, x, layer), LAMBDA conv :
      IF conv.err THEN conv
      ELSE Bind(ApplySiLU(conv.st, conv.t), LAMBDA act :
             IF act.err \/ ~IsPresent(layer.projection) THEN act
             ELSE AddBlockConditioning(act.st, act.t, sharedEmbedding,
                                       TheValue(layer.projection))))

\* faulty variant of SkipConnection: the retained encoder tensor is placed
\* first
SkipConnectionEncoderFirst(st, x, afterEncoder) == Concat(st, afterEncoder, x)

\* the skip connection of forwardPass: "x = concat(x, afterEncoder)"
SkipConnection(st, x, afterEncoder) == Concat(st, x, afterEncoder)

\* faulty variant of OutputStage: the output convolution is followed by the
\* activation
OutputStageActivated(st, x, layer) ==
    Bind(ApplyConv2d(st, x, layer), LAMBDA conv :
      IF conv.err THEN conv ELSE ApplySiLU(conv.st, conv.t))

\* the last stage of forwardPass: "const output = applyConv2d(x,
\* model.outputConv)", whether or not the layer carries a projection
OutputStage(st, x, layer) == ApplyConv2d(st, x, layer)

\* a step of forwardPass after a step that threw is not taken
Unless(r, next) == IF r.err THEN r ELSE next

\* forwardPass(model, noisyInput, timestep) for the model at address m: the
\* store it leaves and the ForwardPassState it returns, or err when it threw
ForwardPass(st, m, noisyInput, timestep) ==
    Bind(st.models[m], LAMBDA model :
    Bind(ComputeCnoise(timestep), LAMBDA cnoise :
    Bind(RunTimeEmbeddingMLP(cnoise, model.timeEmbedMLP), LAMBDA mlp :
    Bind(ConvBlock(st, noisyInput, model.inputConv, mlp.embedding),
         LAMBDA afterInputConv :
    Bind(Unless(afterInputConv,
                ConvBlock(afterInputConv.st, afterInputConv.t, model.encoderConv,
                          mlp.embedding)),
         LAMBDA afterEncoder :
    Bind(Unless(afterEncoder, Downsample2x(afterEncoder.st, afterEncoder.t)),
         LAMBDA afterDownsample :
    Bind(Unless(afterDownsample,
                ConvBlock(afterDownsample.st, afterDownsample.t, model.bottleneckConv,
                          mlp.embedding)),
         LAMBDA afterBottleneck :
    Bind(Unless(afterBottleneck, Upsample2x(afterBottleneck.st, afterBottleneck.t)),
         LAMBDA afterUpsample :
    Bind(Unless(afterUpsample,
                SkipConnection(afterUpsample.st, afterUpsample.t, afterEncoder.t)),
         LAMBDA afterSkipConcat :
    Bind(Unless(afterSkipConcat,
                ConvBlock(afterSkipConcat.st, afterSkipConcat.t, model.decoderConv,
                          mlp.embedding)),
         LAMBDA afterDecoder :
    Bind(Unless(afterDecoder,
                OutputStage(afterDecoder.st, afterDecoder.t, model.outputConv)),
         LAMBDA output :
        [st |-> output.st,
         err |-> output.err,
         trace |-> IF output.err THEN Absent
                   ELSE Present([noisyInput |-> noisyInput,
                                 timestep |-> timestep,
                                 cnoise |-> cnoise,
                                 mlpHidden |-> mlp.hidden,
                                 sharedEmbedding |-> mlp.embedding,
                                 afterInputConv |-> afterInputConv.t,
                                 afterEncoder |-> afterEncoder.t,
                                 afterDownsample |-> afterDownsample.t,
                                 afterBottleneck |-> afterBottleneck.t,
                                 afterUpsample |-> afterUpsample.t,
                                 afterSkipConcat |-> afterSkipConcat.t,
                                 afterDecoder |-> afterDecoder.t,
                                 output |-> output.t])])))))))))))

\* createSampleInput: the gradient [[0.1, 0.4], [0.6, 0.9]]
CreateSampleInput(st) ==
    LET val(c, h, w) == IF h = 0 THEN (IF w = 0 THEN 100 ELSE 400)
                        ELSE (IF w = 0 THEN 600 ELSE 900)
    IN  Bind(CreateActivationTensor(st, 1, 2, 2), LAMBDA input :
            Returned(Fill(input.st, input.t, 1, 2, 2, val), input.t))

\* createRandomInput: four draws, in the order of the loops over h and w
CreateRandomInput(st) ==
    LET val(c, h, w) == RandomValue(Advance(st.rng, 2 * h + w))
    IN  Bind(CreateActivationTensor(st, 1, 2, 2), LAMBDA input :
            Returned([Fill(input.st, input.t, 1, 2, 2, val) EXCEPT
                        !.rng = Advance(st.rng, 4)], input.t))

----------------------------------------------------------------------------
(* Values a caller supplies: models and tensors written as literals of the *)
(* types TinyUNet and ActivationTensor                                      *)

ZeroLinear(l) ==
    [l EXCEPT !.weights = [o \in DOMAIN l.weights |-> [i \in DOMAIN l.weights[o] |-> 0]],
              !.bias = [o \in DOMAIN l.bias |-> 0]]

ZeroConv(layer) ==
    [layer EXCEPT
       !.kernels = [oc \in DOMAIN layer.kernels |-> [ic \in DOMAIN layer.kernels[oc] |->
                      [weights |-> Arr(3, LAMBDA i : Arr(3, LAMBDA j : 0))]]],
       !.bias = [oc \in DOMAIN layer.bias |-> 0],
       !.projection = IF IsPresent(layer.projection)
                      THEN Present(ZeroLinear(TheValue(layer.projection)))
                      ELSE Absent]

\* every kernel weight, bias, MLP weight and projection weight 0
ZeroModel(model) ==
    [timeEmbedMLP |-> [hiddenLayer |-> ZeroLinear(model.timeEmbedMLP.hiddenLayer),
                       outputLayer |-> ZeroLinear(model.timeEmbedMLP.outputLayer)],
     inputConv |-> ZeroConv(model.inputConv),
     encoderConv |-> ZeroConv(model.encoderConv),
     bottleneckConv |-> ZeroConv(model.bottleneckConv),
     decoderConv |-> ZeroConv(model.decoderConv),
     outputConv |-> ZeroConv(model.outputConv)]

\* no layer carries a projection
BareModel(model) ==
    [model EXCEPT !.inputConv.projection = Absent,
                  !.encoderConv.projection = Absent,
                  !.bottleneckConv.projection = Absent,
                  !.decoderConv.projection = Absent]

\* biases set to non-zero values
Biased(bias) == [o \in DOMAIN bias |-> 50 * (o + 1)]

\* every layer, outputConv too, carries a projection, and the biases of the
\* layers and of the projections are non-zero
FullModel(model, r) ==
    LET withBias(layer) ==
            [layer EXCEPT !.bias = Biased(layer.bias),
                          !.projection = IF IsPresent(layer.projection)
                              THEN Present([TheValue(layer.projection) EXCEPT
                                              !.bias = Biased(@)])
                              ELSE Absent]
    IN  [timeEmbedMLP |->
            [hiddenLayer |-> [model.timeEmbedMLP.hiddenLayer EXCEPT !.bias = Biased(@)],
             outputLayer |-> [model.timeEmbedMLP.outputLayer EXCEPT !.bias = Biased(@)]],
         inputConv |-> withBias(model.inputConv),
         encoderConv |-> withBias(model.encoderConv),
         bottleneckConv |-> withBias(model.bottleneckConv),
         decoderConv |-> withBias(model.decoderConv),
         outputConv |-> withBias([model.outputConv EXCEPT
                          !.projection = Present(CreateBlockProjection(r, 8, 1))])]

ModelKinds == {"fresh", "zero", "bare", "full"}

\* a model of the given kind placed in the store; "fresh" is createTinyUNet()
SupplyModel(st, kind) ==
    Bind(CreateTinyUNet(st), LAMBDA made :
    Bind(made.st.models[made.m], LAMBDA model :
        IF kind = "fresh" THEN made
        ELSE [made EXCEPT !.st.models[made.m] =
                CASE kind = "zero" -> ZeroModel(model)
                  [] kind = "bare" -> BareModel(model)
                  [] kind = "full" -> FullModel(model, made.st.rng)]))

\* a tensor literal of the given shape with distinct positive and negative
\* entries
SupplyTensor(st, channels, height, width) ==
    LET val(c, h, w) == 700 * h + 250 * w - 400 * c - 300
    IN  Bind(CreateActivationTensor(st, channels, height, width), LAMBDA made :
            Returned(Fill(made.st, made.t, channels, height, width, val), made.t))

----------------------------------------------------------------------------
(* State: the heaps, the random source, and the last two calls made *)

Store == [rows |-> rows, chans |-> chans, tens |-> tens, models |-> models, rng |-> rng]

EmptyStore(seed) ==
    [rows |-> << >>, chans |-> << >>, tens |-> << >>, models |-> << >>, rng |-> seed]

StartsAs(st) ==
    /\ rows = st.rows
    /\ chans = st.chans
    /\ tens = st.tens
    /\ models = st.models
    /\ rng = st.rng

Commit(st) ==
    /\ rows' = st.rows
    /\ chans' = st.chans
    /\ tens' = st.tens
    /\ models' = st.models
    /\ rng' = st.rng

\* a call and its outcome: the model m, the tensor arguments a and b, the
\* layer, the noise level, and the tensor t, number v or trace returned
Call(op, m, a, b, layer, sigma, t, v, trace, err) ==
    [op |-> op, m |-> m, a |-> a, b |-> b, layer |-> layer, sigma |-> sigma,
     t |-> t, v |-> v, trace |-> trace, err |-> err]

NoCall == Call("none", 0, 0, 0, "", 0, 0, 0, Absent, FALSE)

\* the fields of an Application: the model it holds (an address, 0 before
\* construction), its forwardState, its timestep and what its visualization
\* was built from
NoApp ==
    [model |-> 0, forwardState |-> Absent, timestep |-> 0, visualization |-> Absent,
     scene |-> {}, groups |-> 0]

\* the fields of a DiamondVisualizationManager (all absent before its
\* construction), the groups of its scene and the number of groups created
NoView ==
    [currentMode |-> "architecture", currentGroup |-> Absent,
     animationGroup |-> Absent, selectedBlockName |-> Absent, lastTime |-> 0,
     model |-> [encoder |-> << >>, bottleneck |-> "", decoder |-> << >>],
     scene |-> {}, groups |-> 0]

Record(call) ==
    /\ last' = call
    /\ prev' = last
    /\ steps' = steps + 1
    /\ app' = app
    /\ view' = view

\* the noise levels passed to forwardPass: -0.5, 0, 0.5 and 1
FwdSigmas == {-5000000, 0, 5000000, 10000000}

\* the tensors of shape (1, 2, 2): created inputs and returned outputs
Inputs ==
    {t \in 1 .. Len(tens) :
        /\ tens[t].channels = 1 /\ tens[t].height = 2 /\ tens[t].width = 2
        /\ WellFormed(Store, t)}

Init ==
    /\ \E seed \in 0 .. MaxSeed, kind \in ModelKinds, sample \in BOOLEAN :
          \E model \in {SupplyModel(EmptyStore(seed), kind)} :
          \E input \in {IF sample THEN CreateSampleInput(model.st)
                         ELSE CreateRandomInput(model.st)} :
             StartsAs(input.st)
    /\ last = NoCall
    /\ prev = NoCall
    /\ steps = 0
    /\ app = NoApp
    /\ view = NoView

DoCreateTinyUNet ==
    /\ steps < MaxSteps
    /\ LET r == CreateTinyUNet(Store)
       IN  /\ Commit(r.st)
           /\ Record(Call("createTinyUNet", r.m, 0, 0, "", 0, 0, 0, Absent, FALSE))

DoCreateRandomInput ==
    /\ steps < MaxSteps
    /\ LET r == CreateRandomInput(Store)
       IN  /\ Commit(r.st)
           /\ Record(Call("createRandomInput", 0, 0, 0, "", 0, r.t, 0, Absent, r.err))

DoForwardPass ==
    /\ steps < MaxSteps
    /\ \E m \in 1 .. Len(models), x \in Inputs, sigma \in FwdSigmas :
          LET r == ForwardPass(Store, m, x, sigma)
          IN  /\ Commit(r.st)
              /\ Record(Call("forwardPass", m, x, 0, "", sigma, 0, 0, r.trace, r.err))

DoCountParameters ==
    /\ steps < MaxSteps
    /\ \E m \in 1 .. Len(models) :
          LET r == CountParameters(Store, m)
          IN  /\ Commit(r.st)
              /\ Record(Call("countParameters", m, 0, 0, "", 0, 0, r.v, Absent, FALSE))

Next ==
    \/ DoCreateTinyUNet
    \/ DoCreateRandomInput
    \/ DoForwardPass
    \/ DoCountParameters

Spec == Init /\ [][Next]_vars

----------------------------------------------------------------------------
(* The tensor primitives and computeCnoise applied one after another: each *)
(* operator takes the tensor the previous one returned                      *)

\* shapes (channels, height, width) of the two tensors supplied at the start
OpsFixtures ==
    { << <<2, 2, 2>>, <<1, 2, 2>> >>,
      << <<2, 2, 2>>, <<2, 2, 2>> >>,
      << <<2, 2, 2>>, <<2, 3, 3>> >>,
      << <<1, 1, 1>>, <<3, 2, 2>> >>,
      << <<1, 1, 1>>, <<1, 4, 4>> >>,
      << <<1, 1, 1>>, <<2, 1, 3>> >>,
      << <<1, 1, 1>>, <<1, 0, 2>> >> }

\* the noise levels passed to computeCnoise: -5e-7, 0, 5e-7, 1e-6, 1.1e-6, 0.5
OpsSigmas == {-5, 0, 5, 10, 11, 5000000}

OpsLayers == {"inputConv", "encoderConv", "decoderConv", "outputConv"}

Layer(model, name) ==
    CASE name = "inputConv" -> model.inputConv
      [] name = "encoderConv" -> model.encoderConv
      [] name = "bottleneckConv" -> model.bottleneckConv
      [] name = "decoderConv" -> model.decoderConv
      [] name = "outputConv" -> model.outputConv

\* the tensor the next operator is applied to
Cursor == IF last.t > 0 THEN last.t ELSE 2

\* the embedding of noise level 0.5 under the model at address 1
OpsEmbedding ==
    RunTimeEmbeddingMLP(ComputeCnoise(5000000), models[1].timeEmbedMLP).embedding

InitOps ==
    /\ \E seed \in 0 .. MaxSeed, fx \in OpsFixtures :
          \E model \in {CreateTinyUNet(EmptyStore(seed))} :
          \E b \in {SupplyTensor(model.st, fx[1][1], fx[1][2], fx[1][3])} :
          \E a \in {SupplyTensor(b.st, fx[2][1], fx[2][2], fx[2][3])} :
             StartsAs(a.st)
    /\ last = NoCall
    /\ prev = NoCall
    /\ steps = 0
    /\ app = NoApp
    /\ view = NoView

OpConv2d ==
    /\ steps < MaxSteps
    /\ WellFormed(Store, Cursor)
    /\ \E name \in OpsLayers :
          LET r == ApplyConv2d(Store, Cursor, Layer(models[1], name))
          IN  /\ Commit(r.st)
              /\ Record(Call("applyConv2d", 1, Cursor, 0, name, 0, r.t, 0, Absent, r.err))

OpSiLU ==
    /\ steps < MaxSteps
    /\ WellFormed(Store, Cursor)
    /\ LET r == ApplySiLU(Store, Cursor)
       IN  /\ Commit(r.st)
           /\ Record(Call("applySiLU", 0, Cursor, 0, "", 0, r.t, 0, Absent, r.err))

OpDownsample2x ==
    /\ steps < MaxSteps
    /\ WellFormed(Store, Cursor)
    /\ LET r == Downsample2x(Store, Cursor)
       IN  /\ Commit(r.st)
           /\ Record(Call("downsample2x", 0, Cursor, 0, "", 0, r.t, 0, Absent, r.err))

OpUpsample2x ==
    /\ steps < MaxSteps
    /\ WellFormed(Store, Cursor)
    /\ LET r == Upsample2x(Store, Cursor)
       IN  /\ Commit(r.st)
           /\ Record(Call("upsample2x", 0, Cursor, 0, "", 0, r.t, 0, Absent, r.err))

OpConcat ==
    /\ steps < MaxSteps
    /\ \E p \in {<<Cursor, 1>>, <<1, Cursor>>, <<Cursor, Cursor>>} :
          LET r == Concat(Store, p[1], p[2])
          IN  /\ Commit(r.st)
              /\ Record(Call("concat", 0, p[1], p[2], "", 0, r.t, 0, Absent, r.err))

OpAddBlockConditioning ==
    /\ steps < MaxSteps
    /\ WellFormed(Store, Cursor)
    /\ LET r == AddBlockConditioning(Store, Cursor, OpsEmbedding,
                                     TheValue(models[1].inputConv.projection))
       IN  /\ Commit(r.st)
           /\ Record(Call("addBlockConditioning", 1, Cursor, 0, "inputConv", 5000000,
                          r.t, 0, Absent, r.err))

OpComputeCnoise ==
    /\ steps < MaxSteps
    /\ \E sigma \in OpsSigmas :
          /\ UNCHANGED <<rows, chans, tens, models, rng>>
          /\ Record(Call("computeCnoise", 0, 0, 0, "", sigma, 0, ComputeCnoise(sigma),
                         Absent, FALSE))

OpForwardPass ==
    /\ steps < MaxSteps
    /\ Cursor \in Inputs
    /\ \E sigma \in FwdSigmas :
          LET r == ForwardPass(Store, 1, Cursor, sigma)
          IN  /\ Commit(r.st)
              /\ Record(Call("forwardPass", 1, Cursor, 0, "", sigma, 0, 0, r.trace, r.err))

NextOps ==
    \/ OpConv2d
    \/ OpSiLU
    \/ OpDownsample2x
    \/ OpUpsample2x
    \/ OpConcat
    \/ OpAddBlockConditioning
    \/ OpComputeCnoise
    \/ OpForwardPass

SpecOps == InitOps /\ [][NextOps]_vars

----------------------------------------------------------------------------
(* Properties of the parameter count and of the forward pass, under Spec *)

\* the store of the next state
StoreNext ==
    [rows |-> rows', chans |-> chans', tens |-> tens', models |-> models', rng |-> rng']

\* a model createTinyUNet() returns, at some position of the random source
BuiltByCreateTinyUNet(model) ==
    \E r \in 0 .. RngPeriod - 1 : model = TinyUNetValue(r).v

\* the numbers a linear layer or a projection stores
NumbersOfLinear(l) ==
    SumTo([o \in DOMAIN l.weights |-> Length(l.weights[o])], Length(l.weights))
    + Length(l.bias)

\* the numbers a convolution layer stores in its kernels and its bias
NumbersOfConv(layer) ==
    SumTo([oc \in DOMAIN layer.kernels |->
             SumTo([ic \in DOMAIN layer.kernels[oc] |->
                      SumTo([kh \in 0 .. 2 |->
                               Length(layer.kernels[oc][ic].weights[kh])], 3)],
                   Length(layer.kernels[oc]))],
          Length(layer.kernels))
    + Length(layer.bias)

\* the tensors a trace records after the layers, in the order of the pass
TraceTensors(trace) ==
    << trace.afterInputConv, trace.afterEncoder, trace.afterDownsample,
       trace.afterBottleneck, trace.afterUpsample, trace.afterSkipConcat,
       trace.afterDecoder, trace.output >>

\* in store st the tensor t has the declared shape and data of that extent
HasShape(st, t, channels, height, width) ==
    /\ st.tens[t].channels = channels
    /\ st.tens[t].height = height
    /\ st.tens[t].width = width
    /\ WellFormed(st, t)

\* declared dimensions and data of a tensor
TensorValue(st, t) ==
    [channels |-> st.tens[t].channels, height |-> st.tens[t].height,
     width |-> st.tens[t].width, data |-> Contents(st, t)]

\* every field of a trace, the tensors by their dimensions and data
TraceValue(st, trace) ==
    [timestep |-> trace.timestep,
     cnoise |-> trace.cnoise,
     mlpHidden |-> trace.mlpHidden,
     sharedEmbedding |-> trace.sharedEmbedding,
     noisyInput |-> TensorValue(st, trace.noisyInput),
     recorded |-> [i \in 1 .. 8 |-> TensorValue(st, TraceTensors(trace)[i])]]

\* C1: countParameters of a model returned by createTinyUNet() is 309, the
\* sum of MLP hidden 8, MLP output 40, four block projections of 18,
\* inputConv 20, encoderConv 38, bottleneckConv 38, decoderConv 74 and
\* outputConv 19, each part being the numbers the model stores there
C1_ParameterCount ==
    (last.op = "countParameters" /\ BuiltByCreateTinyUNet(models[last.m])) =>
        LET model == models[last.m]
            blocks == << model.inputConv, model.encoderConv, model.bottleneckConv,
                         model.decoderConv >>
        IN  /\ last.v = 309
            /\ NumbersOfLinear(model.timeEmbedMLP.hiddenLayer) = 8
            /\ NumbersOfLinear(model.timeEmbedMLP.outputLayer) = 40
            /\ \A i \in 1 .. 4 :
                  /\ IsPresent(blocks[i].projection)
                  /\ NumbersOfLinear(TheValue(blocks[i].projection)) = 18
            /\ ~IsPresent(model.outputConv.projection)
            /\ NumbersOfConv(model.inputConv) = 20
            /\ NumbersOfConv(model.encoderConv) = 38
            /\ NumbersOfConv(model.bottleneckConv) = 38
            /\ NumbersOfConv(model.decoderConv) = 74
            /\ NumbersOfConv(model.outputConv) = 19
            /\ last.v = 8 + 40 + 4 * 18 + 20 + 38 + 38 + 74 + 19

\* createTinyUNet() was called and countParameters of its model returned 309
C1_Witness ==
    /\ prev.op = "createTinyUNet"
    /\ last.op = "countParameters"
    /\ last.m = prev.m
    /\ last.v = 309

\* C2: a call of forwardPass leaves the random source where it was, and a
\* call that follows a call with an equal model, an equal input tensor and
\* the same sigma returns a trace equal to the earlier one in every field
C2_Deterministic ==
    [][(steps' = steps + 1 /\ last'.op = "forwardPass") =>
          /\ rng' = rng
          /\ ( /\ last.op = "forwardPass"
               /\ models'[last'.m] = models[last.m]
               /\ TensorValue(StoreNext, last'.a) = TensorValue(Store, last.a)
               /\ last'.sigma = last.sigma ) =>
                  /\ last'.err = last.err
                  /\ ~last.err =>
                        TraceValue(StoreNext, TheValue(last'.trace))
                          = TraceValue(Store, TheValue(last.trace))]_vars

\* forwardPass was called twice with the same model, input and sigma and
\* returned two traces made of different tensor objects
C2_Witness ==
    /\ prev.op = "forwardPass" /\ last.op = "forwardPass"
    /\ last.m = prev.m /\ last.a = prev.a /\ last.sigma = prev.sigma
    /\ IsPresent(last.trace) /\ IsPresent(prev.trace)
    /\ TheValue(last.trace).output # TheValue(prev.trace).output
    /\ IsPresent(models[last.m].inputConv.projection)

\* C3: forwardPass on a tensor of shape (1, 2, 2) returns a trace whose
\* output has shape (1, 2, 2), whose afterDownsample and afterBottleneck
\* have shape (2, 1, 1) and whose afterSkipConcat has shape (4, 2, 2),
\* whatever the model of the reference configuration and whatever sigma
C3_TraceShapes ==
    (last.op = "forwardPass" /\ HasShape(Store, last.a, 1, 2, 2)) =>
        /\ ~last.err
        /\ IsPresent(last.trace)
        /\ LET trace == TheValue(last.trace)
           IN  /\ HasShape(Store, trace.output, 1, 2, 2)
               /\ HasShape(Store, trace.afterDownsample, 2, 1, 1)
               /\ HasShape(Store, trace.afterBottleneck, 2, 1, 1)
               /\ HasShape(Store, trace.afterSkipConcat, 4, 2, 2)

\* forwardPass returned a trace for a model createTinyUNet() built and a
\* negative sigma
C3_Witness ==
    /\ last.op = "forwardPass"
    /\ BuiltByCreateTinyUNet(models[last.m])
    /\ last.sigma < 0
    /\ IsPresent(last.trace)
    /\ tens[TheValue(last.trace).afterSkipConcat].channels = 4

AllZeroArray(a) == \A i \in DOMAIN a : a[i] = 0

AllZeroLinear(l) ==
    /\ \A o \in DOMAIN l.weights : AllZeroArray(l.weights[o])
    /\ AllZeroArray(l.bias)

AllZeroConv(layer) ==
    /\ \A oc \in DOMAIN layer.kernels : \A ic \in DOMAIN layer.kernels[oc] :
          \A kh \in DOMAIN layer.kernels[oc][ic].weights :
             AllZeroArray(layer.kernels[oc][ic].weights[kh])
    /\ AllZeroArray(layer.bias)
    /\ IsPresent(layer.projection) => AllZeroLinear(TheValue(layer.projection))

\* every kernel weight, bias, MLP weight and projection weight is 0
AllZeroModel(model) ==
    /\ AllZeroLinear(model.timeEmbedMLP.hiddenLayer)
    /\ AllZeroLinear(model.timeEmbedMLP.outputLayer)
    /\ AllZeroConv(model.inputConv)
    /\ AllZeroConv(model.encoderConv)
    /\ AllZeroConv(model.bottleneckConv)
    /\ AllZeroConv(model.decoderConv)
    /\ AllZeroConv(model.outputConv)

AllZeroTensor(st, t) ==
    \A c \in DOMAIN Contents(st, t) : \A h \in DOMAIN Contents(st, t)[c] :
        AllZeroArray(Contents(st, t)[c][h])

\* C4: when every weight and bias of the model is 0, every tensor the trace
\* of forwardPass records after a layer is all-zero, for any input and sigma
C4_ZeroWeightCollapse ==
    (last.op = "forwardPass" /\ AllZeroModel(models[last.m])) =>
        /\ IsPresent(last.trace)
        /\ \A i \in 1 .. 8 :
              AllZeroTensor(Store, TraceTensors(TheValue(last.trace))[i])

\* forwardPass ran on an all-zero model with an input that is not all-zero
C4_Witness ==
    /\ last.op = "forwardPass"
    /\ AllZeroModel(models[last.m])
    /\ ~AllZeroTensor(Store, last.a)
    /\ IsPresent(last.trace)
    /\ AllZeroTensor(Store, TheValue(last.trace).output)

----------------------------------------------------------------------------
(* Properties of computeCnoise and of the tensor primitives, under SpecOps *)

\* the value 0.25 * ln(1e-6)
CnoiseAtEps == Mul(250, MathLogSigma(SigmaEps))

\* two calls of computeCnoise in a row, the noise level rising
RisingCnoiseCalls ==
    /\ prev.op = "computeCnoise"
    /\ last.op = "computeCnoise"
    /\ prev.sigma < last.sigma

\* C5, as stated: for 0 < sigma1 < sigma2, cnoise(sigma1) < cnoise(sigma2)
C5_StrictlyMonotonic ==
    (RisingCnoiseCalls /\ 0 < prev.sigma) => prev.v < last.v

\* C5, amended: for sigma1 < sigma2, cnoise(sigma1) < cnoise(sigma2) when
\* sigma2 is above the clamp threshold 1e-6, and cnoise(sigma1) =
\* cnoise(sigma2) when sigma2 is at or below it, positive levels included
C5_MonotonicAboveClamp ==
    RisingCnoiseCalls =>
        /\ last.sigma > SigmaEps => prev.v < last.v
        /\ last.sigma <= SigmaEps => prev.v = last.v

\* computeCnoise was called at a positive level below the threshold and then
\* at a level above it
C5_Witness ==
    /\ RisingCnoiseCalls
    /\ 0 < prev.sigma /\ prev.sigma < SigmaEps
    /\ last.sigma > SigmaEps
    /\ prev.v < last.v

\* C6: for sigma <= 1e-6, zero and the negative levels included,
\* computeCnoise returns 0.25 * ln(1e-6) and does not throw, and forwardPass
\* at such a level returns a trace holding that cnoise and does not throw
C6_CnoiseClamped ==
    /\ (last.op = "computeCnoise" /\ last.sigma <= SigmaEps) =>
          /\ ~last.err
          /\ last.v = CnoiseAtEps
    /\ (last.op = "forwardPass" /\ last.sigma <= SigmaEps) =>
          /\ ~last.err
          /\ IsPresent(last.trace)
          /\ TheValue(last.trace).cnoise = CnoiseAtEps
          /\ TheValue(last.trace).cnoise = ComputeCnoise(SigmaEps)

\* computeCnoise was called at a negative level and forwardPass at level 0
C6_Witness ==
    /\ prev.op = "computeCnoise" /\ prev.sigma < 0 /\ prev.v = CnoiseAtEps
    /\ last.op = "forwardPass" /\ last.sigma = 0 /\ IsPresent(last.trace)

\* C7: concat(a, b) returns a tensor of a.channels + b.channels channels
\* whose channel c is a's channel c and whose channel a.channels + c is b's
\* channel c
C7_ConcatOrder ==
    (last.op = "concat" /\ ~last.err) =>
        LET a == Contents(Store, last.a)
            b == Contents(Store, last.b)
            out == Contents(Store, last.t)
        IN  /\ tens[last.t].channels = tens[last.a].channels + tens[last.b].channels
            /\ DOMAIN out = 0 .. Length(a) + Length(b) - 1
            /\ Length(a) = tens[last.a].channels
            /\ \A c \in DOMAIN a : out[c] = a[c]
            /\ \A c \in DOMAIN b : out[Length(a) + c] = b[c]

\* concat was applied to two different tensors of two channels each whose
\* data differ
C7_Witness ==
    /\ last.op = "concat" /\ ~last.err
    /\ last.a # last.b
    /\ tens[last.a].channels = 2 /\ tens[last.b].channels = 2
    /\ Contents(Store, last.a) # Contents(Store, last.b)
    /\ tens[last.t].channels = 4

\* the calls that take tensors and return a tensor or a trace
TensorOps ==
    {"applyConv2d", "applySiLU", "downsample2x", "upsample2x", "concat",
     "addBlockConditioning", "forwardPass"}

\* the step leaves tensor t as it was: its object, its channel arrays and
\* its rows
InputUntouched(t) ==
    /\ t <= Len(tens')
    /\ tens'[t] = tens[t]
    /\ \A c \in DOMAIN tens[t].data :
          /\ chans'[tens[t].data[c]] = chans[tens[t].data[c]]
          /\ \A h \in DOMAIN chans[tens[t].data[c]] :
                rows'[chans[tens[t].data[c]][h]] = rows[chans[tens[t].data[c]][h]]

\* the step created tensor t, its channel arrays and its rows
NewlyCreated(t) ==
    /\ t > Len(tens)
    /\ t <= Len(tens')
    /\ \A c \in DOMAIN tens'[t].data :
          /\ tens'[t].data[c] > Len(chans)
          /\ \A h \in DOMAIN chans'[tens'[t].data[c]] :
                chans'[tens'[t].data[c]][h] > Len(rows)

\* C8: a call of a tensor operator or of forwardPass leaves the dimensions
\* and every data element of each input tensor as they were, and the tensor
\* it returns (for forwardPass, every tensor the trace records) is new
C8_InputsUnchanged ==
    [][(steps' = steps + 1 /\ last'.op \in TensorOps) =>
          /\ \A t \in {last'.a, last'.b} \ {0} : InputUntouched(t)
          /\ (~last'.err /\ last'.op # "forwardPass") => NewlyCreated(last'.t)
          /\ (~last'.err /\ last'.op = "forwardPass") =>
                \A i \in 1 .. 8 : NewlyCreated(TraceTensors(TheValue(last'.trace))[i])]_vars

\* a tensor was downsampled and the result upsampled, each into a new tensor
C8_Witness ==
    /\ prev.op = "downsample2x" /\ last.op = "upsample2x"
    /\ ~last.err
    /\ last.a = prev.t
    /\ last.t > last.a
    /\ prev.t > prev.a

\* C10, as stated: applyConv2d on an input whose channel count differs from
\* layer.inChannels throws and returns no tensor
C10_MismatchFails ==
    ( /\ last.op = "applyConv2d"
      /\ tens[last.a].channels # Layer(models[last.m], last.layer).inChannels ) =>
        /\ last.err
        /\ last.t = 0

----------------------------------------------------------------------------
(* The model is never written, under Spec *)

\* C9: a call of forwardPass or of countParameters leaves every model,
\* weights, biases and declared dimensions, as it was
C9_ModelNeverWritten ==
    [][(steps' = steps + 1 /\ last'.op \in {"forwardPass", "countParameters"}) =>
          models' = models]_vars

\* forwardPass and then countParameters were called on a model
\* createTinyUNet() built
C9_Witness ==
    /\ prev.op = "forwardPass" /\ IsPresent(prev.trace)
    /\ last.op = "countParameters"
    /\ last.m = prev.m
    /\ BuiltByCreateTinyUNet(models[last.m])

----------------------------------------------------------------------------
(* The arithmetic of the primitives, under SpecOps *)

\* input[ic][ih][iw] with zero padding outside [0, height) x [0, width)
Padded(st, t, ic, ih, iw) ==
    IF ih >= 0 /\ ih < st.tens[t].height /\ iw >= 0 /\ iw < st.tens[t].width
    THEN At(st, t, ic, ih, iw)
    ELSE 0

\* bias[oc] + the sum over ic, kh, kw of kernel[oc][ic][kh][kw] times the
\* padded input at (ic, h + kh - 1, w + kw - 1), the taps numbered ic, kh, kw
ConvSum(st, t, layer, oc, h, w) ==
    layer.bias[oc]
    + SumTo([j \in 0 .. 9 * layer.inChannels - 1 |->
               Mul(layer.kernels[oc][j \div 9].weights[(j % 9) \div 3][j % 3],
                   Padded(st, t, j \div 9, h + ((j % 9) \div 3) - 1, w + (j % 3) - 1))],
            9 * layer.inChannels)

\* C11: applyConv2d on an input of layer.inChannels channels returns a
\* tensor of layer.outChannels channels and the input's height and width
\* with output[oc][h][w] = bias[oc] + the zero-padded 3x3 sum over the
\* input channels
C11_ConvFormula ==
    ( /\ last.op = "applyConv2d"
      /\ tens[last.a].channels = Layer(models[last.m], last.layer).inChannels ) =>
        LET layer == Layer(models[last.m], last.layer)
        IN  /\ ~last.err
            /\ HasShape(Store, last.t, layer.outChannels,
                        tens[last.a].height, tens[last.a].width)
            /\ \A oc \in 0 .. layer.outChannels - 1 :
                  \A h \in 0 .. tens[last.a].height - 1 :
                     \A w \in 0 .. tens[last.a].width - 1 :
                        At(Store, last.t, oc, h, w)
                          = ConvSum(Store, last.a, layer, oc, h, w)

\* applyConv2d ran on a 3x3 input of two channels, which has border
\* positions and a position with all nine taps inside
C11_Witness ==
    /\ last.op = "applyConv2d" /\ ~last.err
    /\ tens[last.a].channels = 2
    /\ tens[last.a].height = 3 /\ tens[last.a].width = 3
    /\ Layer(models[last.m], last.layer).inChannels = 2
    /\ At(Store, last.t, 0, 1, 1) # At(Store, last.t, 0, 0, 0)

----------------------------------------------------------------------------
(* The structure of the forward pass, under Spec *)

\* the conditioned blocks of a trace under a model: the tensor fed to the
\* block, its layer and the tensor recorded for it
ConditionedBlocks(model, trace) ==
    << [previous |-> trace.noisyInput, layer |-> model.inputConv,
        recorded |-> trace.afterInputConv],
       [previous |-> trace.afterInputConv, layer |-> model.encoderConv,
        recorded |-> trace.afterEncoder],
       [previous |-> trace.afterDownsample, layer |-> model.bottleneckConv,
        recorded |-> trace.afterBottleneck],
       [previous |-> trace.afterSkipConcat, layer |-> model.decoderConv,
        recorded |-> trace.afterDecoder] >>

\* the value block conditioning adds to channel c under the layer: entry c
\* of the projected embedding, 0 when the layer has no projection
ConditioningOf(layer, embedding, c) ==
    IF IsPresent(layer.projection)
    THEN ApplyBlockProjection(embedding, TheValue(layer.projection))[c]
    ELSE 0

\* in store st the block's recorded tensor is silu(conv2d(previous, layer))
\* plus the conditioning of each channel
RecordedAfterConditioning(st, block, embedding) ==
    /\ HasShape(st, block.recorded, block.layer.outChannels,
                st.tens[block.previous].height, st.tens[block.previous].width)
    /\ \A c \in 0 .. block.layer.outChannels - 1 :
          \A h \in 0 .. st.tens[block.previous].height - 1 :
             \A w \in 0 .. st.tens[block.previous].width - 1 :
                At(st, block.recorded, c, h, w)
                  = SiLU(ConvSum(st, block.previous, block.layer, c, h, w))
                    + ConditioningOf(block.layer, embedding, c)

\* C12: in each of the four conditioned blocks the tensor forwardPass
\* records is silu(conv2d(previous, layer)) + conditioning, the conditioning
\* added after the activation
C12_ConvSiluConditioning ==
    (last.op = "forwardPass" /\ IsPresent(last.trace)) =>
        LET trace == TheValue(last.trace)
            blocks == ConditionedBlocks(models[last.m], trace)
        IN  \A i \in 1 .. 4 :
               RecordedAfterConditioning(Store, blocks[i], trace.sharedEmbedding)

\* forwardPass ran on a model whose inputConv carries a projection, and the
\* conditioning moved afterInputConv away from silu(conv2d(noisyInput))
C12_Witness ==
    /\ last.op = "forwardPass" /\ IsPresent(last.trace)
    /\ IsPresent(models[last.m].inputConv.projection)
    /\ LET trace == TheValue(last.trace)
       IN  /\ ConditioningOf(models[last.m].inputConv, trace.sharedEmbedding, 0) # 0
           /\ At(Store, trace.afterInputConv, 0, 0, 0)
                # SiLU(ConvSum(Store, trace.noisyInput, models[last.m].inputConv, 0, 0, 0))
           /\ At(Store, trace.afterInputConv, 0, 0, 0)
                # SiLU(ConvSum(Store, trace.noisyInput, models[last.m].inputConv, 0, 0, 0)
                       + ConditioningOf(models[last.m].inputConv,
                                        trace.sharedEmbedding, 0))

\* the 2x2 average of tensor t around output position (h, w) of channel c
Average2x2(st, t, c, h, w) ==
    Div(At(st, t, c, 2 * h, 2 * w) + At(st, t, c, 2 * h + 1, 2 * w)
        + At(st, t, c, 2 * h, 2 * w + 1) + At(st, t, c, 2 * h + 1, 2 * w + 1), 4 * Q)

\* C13: in every trace channels 0..1 of afterSkipConcat are afterUpsample
\* and channels 2..3 are afterEncoder, the encoder block's output with its
\* conditioning, which is also the tensor the downsample step was fed
C13_SkipConcatOrder ==
    (last.op = "forwardPass" /\ IsPresent(last.trace)) =>
        LET trace == TheValue(last.trace)
            skip == Contents(Store, trace.afterSkipConcat)
            up == Contents(Store, trace.afterUpsample)
            enc == Contents(Store, trace.afterEncoder)
        IN  /\ DOMAIN skip = 0 .. 3
            /\ DOMAIN up = 0 .. 1
            /\ DOMAIN enc = 0 .. 1
            /\ \A c \in 0 .. 1 : skip[c] = up[c] /\ skip[2 + c] = enc[c]
            /\ RecordedAfterConditioning(
                  Store, ConditionedBlocks(models[last.m], trace)[2],
                  trace.sharedEmbedding)
            /\ \A c \in 0 .. 1 :
                  At(Store, trace.afterDownsample, c, 0, 0)
                    = Average2x2(Store, trace.afterEncoder, c, 0, 0)

\* a trace whose afterUpsample and afterEncoder differ and whose encoder
\* block was conditioned
C13_Witness ==
    /\ last.op = "forwardPass" /\ IsPresent(last.trace)
    /\ IsPresent(models[last.m].encoderConv.projection)
    /\ LET trace == TheValue(last.trace)
       IN  /\ Contents(Store, trace.afterUpsample)[0]
                # Contents(Store, trace.afterEncoder)[0]
           /\ Contents(Store, trace.afterSkipConcat)[2]
                = Contents(Store, trace.afterEncoder)[0]
           /\ ConditioningOf(models[last.m].encoderConv, trace.sharedEmbedding, 0) # 0

\* C14: trace.output is conv2d(trace.afterDecoder, model.outputConv) with
\* neither activation nor conditioning, also when outputConv carries a
\* projection
C14_OutputIsPlainConv ==
    (last.op = "forwardPass" /\ IsPresent(last.trace)) =>
        LET trace == TheValue(last.trace)
            layer == models[last.m].outputConv
        IN  /\ HasShape(Store, trace.output, layer.outChannels,
                        tens[trace.afterDecoder].height, tens[trace.afterDecoder].width)
            /\ \A oc \in 0 .. layer.outChannels - 1 :
                  \A h \in 0 .. tens[trace.afterDecoder].height - 1 :
                     \A w \in 0 .. tens[trace.afterDecoder].width - 1 :
                        At(Store, trace.output, oc, h, w)
                          = ConvSum(Store, trace.afterDecoder, layer, oc, h, w)

\* forwardPass ran on a model whose outputConv carries a projection that
\* would add a non-zero conditioning, and the output is not its own SiLU
C14_Witness ==
    /\ last.op = "forwardPass" /\ IsPresent(last.trace)
    /\ IsPresent(models[last.m].outputConv.projection)
    /\ LET trace == TheValue(last.trace)
       IN  /\ ConditioningOf(models[last.m].outputConv, trace.sharedEmbedding, 0) # 0
           /\ SiLU(At(Store, trace.output, 0, 0, 0)) # At(Store, trace.output, 0, 0, 0)

----------------------------------------------------------------------------
(* Parameters counted and parameters used, under Spec *)

\* the scalars of a linear layer or projection that applyLinear or
\* applyBlockProjection reads: weights[o][i] and bias[o] for o below the
\* output dimension and i below the input dimension
LinearScalars(owner, part, outputDim, inputDim) ==
    {<<owner, part, "weight", o, i>> : o \in 0 .. outputDim - 1, i \in 0 .. inputDim - 1}
    \cup {<<owner, part, "bias", o, 0>> : o \in 0 .. outputDim - 1}

\* the scalars of a convolution layer that applyConv2d uses: bias[oc] and
\* the nine weights of each kernel kernels[oc][ic] it fetches
ConvScalars(layer) ==
    {<<layer.name, "kernel", "weight", oc, 9 * ic + k>> :
        oc \in 0 .. layer.outChannels - 1, ic \in 0 .. layer.inChannels - 1, k \in 0 .. 8}
    \cup {<<layer.name, "kernel", "bias", oc, 0>> : oc \in 0 .. layer.outChannels - 1}

\* the scalars of a layer's projection, none when it has no projection
ProjectionScalars(layer) ==
    IF IsPresent(layer.projection)
    THEN LinearScalars(layer.name, "projection",
                       TheValue(layer.projection).outputDim,
                       TheValue(layer.projection).embeddingDim)
    ELSE {}

\* the scalars of the time embedding MLP
MLPScalars(mlp) ==
    LinearScalars("timeEmbedMLP", "hiddenLayer",
                  mlp.hiddenLayer.outputDim, mlp.hiddenLayer.inputDim)
    \cup LinearScalars("timeEmbedMLP", "outputLayer",
                       mlp.outputLayer.outputDim, mlp.outputLayer.inputDim)

\* the scalars forwardPass uses: the MLP, the five convolutions, and the
\* projections of the four layers whose projection it tests
ParametersUsed(model) ==
    MLPScalars(model.timeEmbedMLP)
    \cup ConvScalars(model.inputConv) \cup ProjectionScalars(model.inputConv)
    \cup ConvScalars(model.encoderConv) \cup ProjectionScalars(model.encoderConv)
    \cup ConvScalars(model.bottleneckConv) \cup ProjectionScalars(model.bottleneckConv)
    \cup ConvScalars(model.decoderConv) \cup ProjectionScalars(model.decoderConv)
    \cup ConvScalars(model.outputConv)

\* the scalars countParameters counts: the MLP, and for each of the five
\* layers of convLayers its kernels, its bias and its projection if present
ParametersCounted(model) ==
    MLPScalars(model.timeEmbedMLP)
    \cup ConvScalars(model.inputConv) \cup ProjectionScalars(model.inputConv)
    \cup ConvScalars(model.encoderConv) \cup ProjectionScalars(model.encoderConv)
    \cup ConvScalars(model.bottleneckConv) \cup ProjectionScalars(model.bottleneckConv)
    \cup ConvScalars(model.decoderConv) \cup ProjectionScalars(model.decoderConv)
    \cup ConvScalars(model.outputConv) \cup ProjectionScalars(model.outputConv)

\* C15, as stated: for every model the scalars countParameters counts are
\* the scalars forwardPass uses, and the count is their number
C15_CountMatchesUsage ==
    last.op = "countParameters" =>
        /\ ParametersCounted(models[last.m]) = ParametersUsed(models[last.m])
        /\ last.v = Cardinality(ParametersUsed(models[last.m]))

\* countParameters returns the number of the scalars it is described to
\* count
CountIsNumberCounted ==
    last.op = "countParameters" =>
        last.v = Cardinality(ParametersCounted(models[last.m]))

----------------------------------------------------------------------------
(* The time embedding recorded in the trace, under Spec *)

\* C16, as stated: the hidden vector runTimeEmbeddingMLP returns, recorded
\* as mlpHidden, is silu(linear([cnoise], hiddenLayer)), of length H, and
\* the embedding is linear(hidden, outputLayer), of length E
C16_HiddenIsActivated ==
    (last.op = "forwardPass" /\ IsPresent(last.trace)) =>
        LET trace == TheValue(last.trace)
            mlp == models[last.m].timeEmbedMLP
        IN  /\ trace.mlpHidden
                 = ApplySiLUArray(ApplyLinear(Arr(1, LAMBDA i : trace.cnoise),
                                              mlp.hiddenLayer))
            /\ Length(trace.mlpHidden) = mlp.hiddenLayer.outputDim
            /\ trace.sharedEmbedding = ApplyLinear(trace.mlpHidden, mlp.outputLayer)
            /\ Length(trace.sharedEmbedding) = mlp.outputLayer.outputDim

\* what the code does: mlpHidden is linear([cnoise], hiddenLayer) before the
\* activation, and the embedding is linear(silu(mlpHidden), outputLayer)
HiddenIsPreActivation ==
    (last.op = "forwardPass" /\ IsPresent(last.trace)) =>
        LET trace == TheValue(last.trace)
            mlp == models[last.m].timeEmbedMLP
        IN  /\ trace.mlpHidden
                 = ApplyLinear(Arr(1, LAMBDA i : trace.cnoise), mlp.hiddenLayer)
            /\ trace.sharedEmbedding
                 = ApplyLinear(ApplySiLUArray(trace.mlpHidden), mlp.outputLayer)

----------------------------------------------------------------------------
(* The structure of the models createTinyUNet builds, under Spec *)

\* kernels has outChannels rows of inChannels kernels, each 3x3, and bias
\* has outChannels entries
WellFormedConv(layer) ==
    /\ DOMAIN layer.kernels = 0 .. layer.outChannels - 1
    /\ \A oc \in DOMAIN layer.kernels :
          /\ DOMAIN layer.kernels[oc] = 0 .. layer.inChannels - 1
          /\ \A ic \in DOMAIN layer.kernels[oc] :
                /\ DOMAIN layer.kernels[oc][ic].weights = 0 .. 2
                /\ \A kh \in 0 .. 2 :
                      DOMAIN layer.kernels[oc][ic].weights[kh] = 0 .. 2
    /\ DOMAIN layer.bias = 0 .. layer.outChannels - 1

\* the layer carries a projection from the embedding to its channels
WellFormedProjection(layer, embeddingDim) ==
    /\ IsPresent(layer.projection)
    /\ TheValue(layer.projection).outputDim = layer.outChannels
    /\ TheValue(layer.projection).embeddingDim = embeddingDim
    /\ DOMAIN TheValue(layer.projection).weights = 0 .. layer.outChannels - 1
    /\ \A o \in 0 .. layer.outChannels - 1 :
          DOMAIN TheValue(layer.projection).weights[o] = 0 .. embeddingDim - 1
    /\ DOMAIN TheValue(layer.projection).bias = 0 .. layer.outChannels - 1

\* the five layers with the channels 1 -> 2 -> 2 -> 2 (4 after the skip)
\* -> 1, projections of embedding dimension 8 on the first four only
WellFormedModel(model) ==
    /\ model.timeEmbedMLP.outputLayer.outputDim = 8
    /\ WellFormedConv(model.inputConv) /\ WellFormedProjection(model.inputConv, 8)
    /\ WellFormedConv(model.encoderConv) /\ WellFormedProjection(model.encoderConv, 8)
    /\ WellFormedConv(model.bottleneckConv)
    /\ WellFormedProjection(model.bottleneckConv, 8)
    /\ WellFormedConv(model.decoderConv) /\ WellFormedProjection(model.decoderConv, 8)
    /\ WellFormedConv(model.outputConv)
    /\ ~IsPresent(model.outputConv.projection)
    /\ << model.inputConv.inChannels, model.inputConv.outChannels,
          model.encoderConv.inChannels, model.encoderConv.outChannels,
          model.bottleneckConv.inChannels, model.bottleneckConv.outChannels,
          model.decoderConv.inChannels, model.decoderConv.outChannels,
          model.outputConv.inChannels, model.outputConv.outChannels >>
         = << 1, 2, 2, 2, 2, 2, 4, 2, 2, 1 >>

\* C18: every model createTinyUNet returns, the one a behaviour starts with
\* and the ones built later, has well-formed kernels and biases in its five
\* layers, a projection of outputDim = outChannels and embeddingDim = 8 on
\* inputConv, encoderConv, bottleneckConv and decoderConv, and none on
\* outputConv
C18_ModelWellFormed ==
    /\ (steps = 0 /\ BuiltByCreateTinyUNet(models[1])) => WellFormedModel(models[1])
    /\ last.op = "createTinyUNet" => WellFormedModel(models[last.m])

\* createTinyUNet() was called with a model already in the heap and returned
\* a well-formed model with other weights
C18_Witness ==
    /\ last.op = "createTinyUNet"
    /\ last.m > 1
    /\ WellFormedModel(models[last.m])
    /\ models[last.m] # models[1]

----------------------------------------------------------------------------
(* The noise level and a model without projections, under Spec *)

\* none of the five layers carries a projection
NoProjection(model) ==
    \A name \in {"inputConv", "encoderConv", "bottleneckConv", "decoderConv",
                 "outputConv"} : ~IsPresent(Layer(model, name).projection)

\* the eight recorded tensors of a trace, by dimensions and data
RecordedTensors(st, trace) ==
    [i \in 1 .. 8 |-> TensorValue(st, TraceTensors(trace)[i])]

\* C19: two consecutive forwardPass calls on the same model without any
\* projection and on inputs of equal value fail or succeed alike and record
\* eight identical tensors, whatever the two noise levels
C19_SigmaWithoutInfluence ==
    [][( /\ steps' = steps + 1
         /\ last'.op = "forwardPass" /\ last.op = "forwardPass"
         /\ last'.m = last.m
         /\ NoProjection(models[last.m])
         /\ TensorValue(StoreNext, last'.a) = TensorValue(Store, last.a) ) =>
            /\ last'.err = last.err
            /\ ~last.err =>
                  RecordedTensors(StoreNext, TheValue(last'.trace))
                    = RecordedTensors(Store, TheValue(last.trace))]_vars

\* forwardPass ran twice on a model without projections and the same input
\* with two noise levels of different cnoise and different embeddings, and
\* the recorded tensors are not all zero
C19_Witness ==
    /\ prev.op = "forwardPass" /\ last.op = "forwardPass"
    /\ last.m = prev.m /\ last.a = prev.a
    /\ NoProjection(models[last.m])
    /\ IsPresent(last.trace) /\ IsPresent(prev.trace)
    /\ TheValue(last.trace).cnoise # TheValue(prev.trace).cnoise
    /\ TheValue(last.trace).sharedEmbedding # TheValue(prev.trace).sharedEmbedding
    /\ RecordedTensors(Store, TheValue(last.trace))
         = RecordedTensors(Store, TheValue(prev.trace))
    /\ ~AllZeroTensor(Store, TheValue(last.trace).output)

----------------------------------------------------------------------------
(* addBlockConditioning against its formula, under SpecOps *)

RECURSIVE WeightedSum(_, _, _)
\* weights[0] * embedding[0] + ... + weights[n-1] * embedding[n-1]
WeightedSum(weights, embedding, n) ==
    IF n = 0 THEN 0
    ELSE WeightedSum(weights, embedding, n - 1)
           + Mul(weights[n - 1], embedding[n - 1])

\* conditioning[o] = bias[o] + sum over i of weights[o][i] * embedding[i]
ConditioningAt(projection, embedding, o) ==
    projection.bias[o]
      + WeightedSum(projection.weights[o], embedding, projection.embeddingDim)

\* the value added to channel c: conditioning[c], or 0 beyond its length
AddedTo(projection, embedding, c) ==
    IF c < projection.outputDim THEN ConditioningAt(projection, embedding, c)
    ELSE 0

\* C20: addBlockConditioning(tensor, embedding, projection) returns a new
\* tensor of the same shape whose entry (c, h, w) is the input's entry plus
\* conditioning[c], and the input's entry itself for a channel at or beyond
\* the length of the conditioning
C20_ConditioningFormula ==
    [][(steps' = steps + 1 /\ last'.op = "addBlockConditioning") =>
          LET projection == TheValue(models[1].inputConv.projection)
              x == tens[last'.a]
          IN  /\ ~last'.err
              /\ HasShape(StoreNext, last'.t, x.channels, x.height, x.width)
              /\ \A c \in 0 .. x.channels - 1, h \in 0 .. x.height - 1,
                    w \in 0 .. x.width - 1 :
                    /\ At(StoreNext, last'.t, c, h, w)
                         = At(Store, last'.a, c, h, w)
                             + AddedTo(projection, OpsEmbedding, c)
                    /\ c >= projection.outputDim =>
                          At(StoreNext, last'.t, c, h, w)
                            = At(Store, last'.a, c, h, w)]_vars

\* addBlockConditioning ran on a tensor of three channels with a
\* conditioning of two non-zero entries: channels 0 and 1 changed and
\* channel 2 is returned as it was
C20_Witness ==
    /\ last.op = "addBlockConditioning" /\ ~last.err
    /\ tens[last.a].channels = 3
    /\ TheValue(models[1].inputConv.projection).outputDim = 2
    /\ \A c \in 0 .. 1 :
          /\ ConditioningAt(TheValue(models[1].inputConv.projection),
                            OpsEmbedding, c) # 0
          /\ At(Store, last.t, c, 0, 0) # At(Store, last.a, c, 0, 0)
    /\ At(Store, last.t, 2, 1, 1) = At(Store, last.a, 2, 1, 1)
    /\ At(Store, last.a, 2, 1, 1) # 0

----------------------------------------------------------------------------
(* The Application (App.ts): it owns a model, a forward state and a        *)
(* timestep; its handlers are the buttons "New Input" and "New Weights"    *)
(* and the timestep slider                                                 *)

\* the initial value of the field timestep, 0.5
InitialTimestep == 5000000

\* a group createTinyUNetWithActivations returns: a new object, numbered in
\* the order of creation, built from the model and the forward state given
NewGroup(a) ==
    [id |-> a.groups + 1, model |-> a.model, forwardState |-> a.forwardState]

\* faulty variant of UpdateVisualization: the old group stays in the scene
UpdateVisualizationKeepingOld(a) ==
    [a EXCEPT !.visualization = Present(NewGroup(a)),
              !.scene = a.scene \cup {NewGroup(a)},
              !.groups = a.groups + 1]

\* updateVisualization: the old group is removed from the scene, a group is
\* built from this.model and this.forwardState, which are only read, and
\* added to the scene; scene holds the tiny-model groups of the scene
UpdateVisualization(a) ==
    [a EXCEPT !.visualization = Present(NewGroup(a)),
              !.scene = (IF IsPresent(a.visualization)
                         THEN a.scene \ {TheValue(a.visualization)}
                         ELSE a.scene) \cup {NewGroup(a)},
              !.groups = a.groups + 1]

\* the tail common to the constructor and both handlers: "this.forwardState
\* = forwardPass(this.model, input, this.timestep);
\* this.updateVisualization()"; a throw leaves the fields as they are
ForwardAndShow(st, a, input) ==
    Bind(ForwardPass(st, a.model, input, a.timestep), LAMBDA r :
        [st |-> r.st,
         app |-> IF r.err THEN a
                 ELSE UpdateVisualization([a EXCEPT !.forwardState = r.trace]),
         input |-> input,
         err |-> r.err])

\* the constructor
Construct(st) ==
    Bind(CreateTinyUNet(st), LAMBDA made :
    Bind(CountParameters(made.st, made.m), LAMBDA counted :
    Bind(CreateSampleInput(counted.st), LAMBDA input :
        ForwardAndShow(input.st,
                       [NoApp EXCEPT !.model = made.m, !.timestep = InitialTimestep],
                       input.t))))

\* runForwardPass(timestep?): the argument is Absent for "New Input"
RunForwardPass(st, a, timestep) ==
    Bind(IF IsPresent(timestep) THEN [a EXCEPT !.timestep = TheValue(timestep)] ELSE a,
         LAMBDA a1 :
    Bind(CreateRandomInput(st), LAMBDA input :
        ForwardAndShow(input.st, a1, input.t)))

\* faulty variant of ReinitializeModel: the model the application holds is
\* given new weights in place
ReinitializeModelInPlace(st, a) ==
    Bind(TinyUNetValue(st.rng), LAMBDA made :
    Bind(CreateRandomInput([st EXCEPT !.models[a.model] = made.v, !.rng = made.r]),
         LAMBDA input :
        ForwardAndShow(input.st, a, input.t)))

\* reinitializeModel()
ReinitializeModel(st, a) ==
    Bind(CreateTinyUNet(st), LAMBDA made :
    Bind(CreateRandomInput(made.st), LAMBDA input :
        ForwardAndShow(input.st, [a EXCEPT !.model = made.m], input.t)))

\* the handler ran: the store and the fields it leaves, and the call made
Handled(op, r) ==
    /\ Commit(r.st)
    /\ app' = r.app
    /\ last' = Call(op, r.app.model, r.input, 0, "", r.app.timestep, 0, 0,
                    r.app.forwardState, r.err)
    /\ prev' = last
    /\ steps' = steps + 1
    /\ view' = view

\* the values the slider is moved to: 0, 0.25 and 1
SliderValues == {0, 2500000, 10000000}

InitApp ==
    /\ \E seed \in 0 .. MaxSeed :
          \E r \in {Construct(EmptyStore(seed))} :
             /\ StartsAs(r.st)
             /\ app = r.app
    /\ last = NoCall
    /\ prev = NoCall
    /\ steps = 0
    /\ view = NoView

\* click on "New Input"
ClickNewInput ==
    /\ steps < MaxAppSteps
    /\ Handled("runForwardPass", RunForwardPass(Store, app, Absent))

\* click on "New Weights"
ClickNewWeights ==
    /\ steps < MaxAppSteps
    /\ Handled("reinitializeModel", ReinitializeModel(Store, app))

\* the slider moved: "this.timestep = parseFloat(value);
\* this.runForwardPass(this.timestep)"
SlideTimestep ==
    /\ steps < MaxAppSteps
    /\ \E t \in SliderValues :
          Handled("slider", RunForwardPass(Store, [app EXCEPT !.timestep = t], Present(t)))

NextApp ==
    \/ ClickNewInput
    \/ ClickNewWeights
    \/ SlideTimestep

SpecApp == InitApp /\ [][NextApp]_vars

\* C17: reinitializeModel makes the application hold a model object created
\* by the call, and leaves the model it held before, and the trace computed
\* from it, equal field for field to what they were
C17_ModelSwapped ==
    [][(steps' = steps + 1 /\ last'.op = "reinitializeModel") =>
          /\ app'.model # app.model
          /\ app'.model > Len(models)
          /\ app.model <= Len(models')
          /\ models'[app.model] = models[app.model]
          /\ \A m \in 1 .. Len(models) : models'[m] = models[m]
          /\ TraceValue(StoreNext, TheValue(app.forwardState))
               = TraceValue(Store, TheValue(app.forwardState))]_vars

\* "New Weights" was clicked: the application holds the second model, the
\* first one is still in the heap with other weights
C17_Witness ==
    /\ last.op = "reinitializeModel"
    /\ app.model = 2
    /\ Len(models) = 2
    /\ models[1] # models[2]
    /\ IsPresent(app.forwardState)

----------------------------------------------------------------------------
(* downsample2x and upsample2x against their formulas, under SpecOps *)

\* the input positions the output position (h, w) of downsample2x reads
BlockOf(h, w) == {2 * h, 2 * h + 1} \X {2 * w, 2 * w + 1}

\* C21: downsample2x on a tensor of even height and width returns a new
\* tensor of the same channels, half the height and half the width whose
\* entry (c, h, w) is the quarter of the sum of the four entries of the
\* input's block (2h..2h+1, 2w..2w+1), and every input position lies in the
\* block of exactly one output position
C21_AveragePooling ==
    [][( /\ steps' = steps + 1 /\ last'.op = "downsample2x"
         /\ tens[last'.a].height % 2 = 0 /\ tens[last'.a].width % 2 = 0 ) =>
          LET x == tens[last'.a]
              outH == x.height \div 2
              outW == x.width \div 2
          IN  /\ ~last'.err
              /\ HasShape(StoreNext, last'.t, x.channels, outH, outW)
              /\ \A c \in 0 .. x.channels - 1, h \in 0 .. outH - 1,
                    w \in 0 .. outW - 1 :
                    At(StoreNext, last'.t, c, h, w) = Average2x2(Store, last'.a, c, h, w)
              /\ \A ih \in 0 .. x.height - 1, iw \in 0 .. x.width - 1 :
                    Cardinality({p \in (0 .. outH - 1) \X (0 .. outW - 1) :
                                    << ih, iw >> \in BlockOf(p[1], p[2])}) = 1]_vars

\* downsample2x ran on a 4x4 tensor and returned a 2x2 tensor whose entries
\* are averages that differ from the top-left element of their block
C21_Witness ==
    /\ last.op = "downsample2x" /\ ~last.err
    /\ tens[last.a].height = 4 /\ tens[last.a].width = 4
    /\ HasShape(Store, last.t, tens[last.a].channels, 2, 2)
    /\ At(Store, last.t, 0, 1, 1) = Average2x2(Store, last.a, 0, 1, 1)
    /\ At(Store, last.t, 0, 0, 0) # At(Store, last.a, 0, 0, 0)

\* C22: upsample2x returns a new tensor of the same channels, twice the
\* height and twice the width whose entry (c, h, w) is the input's entry
\* (c, floor(h/2), floor(w/2)): each input element fills its own 2x2 block
\* and no output element is left unwritten
C22_NearestUpsampling ==
    [][(steps' = steps + 1 /\ last'.op = "upsample2x") =>
          LET x == tens[last'.a]
          IN  /\ ~last'.err
              /\ HasShape(StoreNext, last'.t, x.channels, 2 * x.height, 2 * x.width)
              /\ \A c \in 0 .. x.channels - 1, h \in 0 .. 2 * x.height - 1,
                    w \in 0 .. 2 * x.width - 1 :
                    At(StoreNext, last'.t, c, h, w)
                      = At(Store, last'.a, c, h \div 2, w \div 2)
              /\ \A c \in 0 .. x.channels - 1, h \in 0 .. x.height - 1,
                    w \in 0 .. x.width - 1 :
                    \A p \in BlockOf(h, w) :
                       At(StoreNext, last'.t, c, p[1], p[2]) = At(Store, last'.a, c, h, w)]_vars

\* upsample2x ran on a 2x2 tensor of non-zero, pairwise different entries
\* and returned a 4x4 tensor whose four corners are the four entries
C22_Witness ==
    /\ last.op = "upsample2x" /\ ~last.err
    /\ tens[last.a].height = 2 /\ tens[last.a].width = 2
    /\ HasShape(Store, last.t, tens[last.a].channels, 4, 4)
    /\ Cardinality({At(Store, last.a, 0, p[1], p[2]) : p \in (0 .. 1) \X (0 .. 1)} \ {0})
         = 4
    /\ \A p \in (0 .. 1) \X (0 .. 1) :
          At(Store, last.t, 0, 3 * p[1], 3 * p[2]) = At(Store, last.a, 0, p[1], p[2])

----------------------------------------------------------------------------
(* concat on operands of different spatial sizes, under SpecOps *)

\* the two operands of the last concat call differ in height or in width
ConcatMismatch ==
    /\ last.op = "concat"
    /\ \/ tens[last.a].height # tens[last.b].height
       \/ tens[last.a].width # tens[last.b].width

\* C23, as stated: concat on tensors whose heights or widths differ fails
\* and returns no tensor
C23_ConcatMismatchFails == ConcatMismatch => (last.err /\ last.t = 0)

\* what the code does instead: the call returns a tensor that declares the
\* height and width of a while the channels copied from b keep b's extents
ConcatMismatchReturnsIllFormed ==
    (ConcatMismatch /\ WellFormed(Store, last.a) /\ WellFormed(Store, last.b)) =>
        /\ ~last.err
        /\ tens[last.t].height = tens[last.a].height
        /\ tens[last.t].width = tens[last.a].width
        /\ ~WellFormed(Store, last.t)
        /\ \A c \in 0 .. tens[last.b].channels - 1 :
              Contents(Store, last.t)[tens[last.a].channels + c]
                = Contents(Store, last.b)[c]

----------------------------------------------------------------------------
(* The biases the initializer writes, under Spec *)

\* the bias arrays of a model: two linear layers, five convolution layers
\* and the projections present
Biases(model) ==
    { model.timeEmbedMLP.hiddenLayer.bias, model.timeEmbedMLP.outputLayer.bias }
      \cup { Layer(model, name).bias : name \in OpsLayers \cup {"bottleneckConv"} }
      \cup { TheValue(Layer(model, name).projection).bias :
                name \in { n \in OpsLayers \cup {"bottleneckConv"} :
                             IsPresent(Layer(model, n).projection) } }

\* every bias entry of the model is exactly 0
ZeroBiases(model) == \A bias \in Biases(model) : AllZeroArray(bias)

\* C24: every linear layer, convolution layer and projection of a model
\* createTinyUNet returns, the one a behaviour starts with and the ones
\* built later, has a bias of zeros only, at every position of the random
\* source
C24_BiasesZero ==
    /\ (steps = 0 /\ BuiltByCreateTinyUNet(models[1])) => ZeroBiases(models[1])
    /\ last.op = "createTinyUNet" => ZeroBiases(models[last.m])

\* createTinyUNet() returned a model with four projections whose biases are
\* zero while none of its layers has weights of zeros only
C24_Witness ==
    /\ last.op = "createTinyUNet"
    /\ \A name \in OpsLayers \cup {"bottleneckConv"} :
          /\ Length(Layer(models[last.m], name).bias) > 0
          /\ ~AllZeroConv(Layer(models[last.m], name))
    /\ Cardinality({ name \in OpsLayers \cup {"bottleneckConv"} :
                       IsPresent(Layer(models[last.m], name).projection) }) = 4
    /\ ~AllZeroLinear(models[last.m].timeEmbedMLP.hiddenLayer)
    /\ ZeroBiases(models[last.m])

----------------------------------------------------------------------------
(* The storage of the tensors of a trace, under Spec *)

\* the addresses of the channel arrays and of the rows of tensor t
ChannelsOf(st, t) == {st.tens[t].data[c] : c \in DOMAIN st.tens[t].data}
RowsOf(st, t) ==
    UNION {{st.chans[ch][h] : h \in DOMAIN st.chans[ch]} : ch \in ChannelsOf(st, t)}

\* tensors t and u are different objects without a common channel array or
\* a common row
Separate(st, t, u) ==
    /\ t # u
    /\ ChannelsOf(st, t) \cap ChannelsOf(st, u) = {}
    /\ RowsOf(st, t) \cap RowsOf(st, u) = {}

\* C25: the eight tensors a forwardPass call records are created by that
\* call, and they and the input are pairwise different objects that share
\* no channel array and no row
C25_TraceBuffersSeparate ==
    [][(steps' = steps + 1 /\ last'.op = "forwardPass" /\ ~last'.err) =>
          LET recorded == TraceTensors(TheValue(last'.trace))
              all == << last'.a >> \o recorded
          IN  /\ \A i \in 1 .. 8 : NewlyCreated(recorded[i])
              /\ \A i \in 1 .. 9, j \in 1 .. 9 :
                    i < j => Separate(StoreNext, all[i], all[j])]_vars

\* a trace whose afterSkipConcat holds the values of afterUpsample and of
\* afterEncoder, not all zero, in rows of its own
C25_Witness ==
    /\ last.op = "forwardPass" /\ IsPresent(last.trace)
    /\ LET trace == TheValue(last.trace)
       IN  /\ \A c \in 0 .. 1 :
                /\ Contents(Store, trace.afterSkipConcat)[c]
                     = Contents(Store, trace.afterUpsample)[c]
                /\ Contents(Store, trace.afterSkipConcat)[2 + c]
                     = Contents(Store, trace.afterEncoder)[c]
           /\ ~AllZeroTensor(Store, trace.afterUpsample)
           /\ ~AllZeroTensor(Store, trace.afterEncoder)
           /\ Cardinality(RowsOf(Store, trace.afterSkipConcat)) = 8
           /\ Separate(Store, trace.afterSkipConcat, trace.afterUpsample)
           /\ Separate(Store, trace.afterSkipConcat, trace.afterEncoder)

----------------------------------------------------------------------------
(* The taps of bottleneckConv that a pass on a (1, 2, 2) input reads, under *)
(* Spec                                                                     *)

\* the model with every non-centre tap of the bottleneckConv kernels
\* replaced by F(oc, ic, kh, kw)
WithBorderTaps(model, F(_, _, _, _)) ==
    [model EXCEPT !.bottleneckConv.kernels =
        [oc \in DOMAIN @ |-> [ic \in DOMAIN @[oc] |->
            [weights |-> [kh \in 0 .. 2 |-> [kw \in 0 .. 2 |->
                IF kh = 1 /\ kw = 1 THEN @[oc][ic].weights[1][1]
                ELSE F(oc, ic, kh, kw)]]]]]]

\* two replacements: every border tap 0, and border taps of different
\* non-zero values
BorderZero(model) == WithBorderTaps(model, LAMBDA oc, ic, kh, kw : 0)
BorderOther(model) ==
    WithBorderTaps(model, LAMBDA oc, ic, kh, kw :
        700 - 100 * (3 * kh + kw) - 40 * oc + 15 * ic)

\* the value of the trace of the call forwardPass(variant, x, sigma) made in
\* the current store, or Absent when the call throws
TraceOfVariant(variant, x, sigma) ==
    LET added == [Store EXCEPT !.models = Append(models, variant)]
        r == ForwardPass(added, Len(models) + 1, x, sigma)
    IN  IF r.err THEN Absent ELSE Present(TraceValue(r.st, TheValue(r.trace)))

\* C26: a forwardPass call on a (1, 2, 2) input returns the trace, field by
\* field, that the same call returns on the model with other non-centre taps
\* in the bottleneckConv kernels; as both replacements leave the centre
\* taps, any two models that differ in those taps only have equal traces
C26_BorderTapsUnread ==
    (last.op = "forwardPass" /\ ~last.err) =>
        \A variant \in {BorderZero(models[last.m]), BorderOther(models[last.m])} :
            TraceOfVariant(variant, last.a, last.sigma)
              = Present(TraceValue(Store, TheValue(last.trace)))

\* forwardPass ran on a model whose bottleneckConv has non-zero border taps
\* and non-zero centre taps, the bottleneck's output is not zero, and the
\* two replacements are models different from it
C26_Witness ==
    /\ last.op = "forwardPass" /\ ~last.err
    /\ BorderZero(models[last.m]) # models[last.m]
    /\ BorderOther(models[last.m]) # models[last.m]
    /\ \A oc \in 0 .. 1, ic \in 0 .. 1 :
          models[last.m].bottleneckConv.kernels[oc][ic].weights[1][1] # 0
    /\ HasShape(Store, TheValue(last.trace).afterDownsample, 2, 1, 1)
    /\ ~AllZeroTensor(Store, TheValue(last.trace).afterDownsample)
    /\ ~AllZeroTensor(Store, TheValue(last.trace).afterBottleneck)

----------------------------------------------------------------------------
(* The fields of the application and its scene, under SpecApp *)

\* the value of the trace forwardPass(models[m], x, sigma) returns in the
\* current store, or Absent when the call throws
RecomputedTrace(m, x, sigma) ==
    LET r == ForwardPass(Store, m, x, sigma)
    IN  IF r.err THEN Absent ELSE Present(TraceValue(r.st, TheValue(r.trace)))

\* C27: after the constructor and after every handler run, forwardState is
\* the trace forwardPass returns for the application's model, the input the
\* handler drew and the application's timestep, its field timestep is that
\* timestep, and the scene holds one tiny-model group, the one referenced by
\* visualization, built from that model and that forwardState
C27_AppConsistent ==
    /\ IsPresent(app.forwardState)
    /\ IsPresent(app.visualization)
    /\ LET trace == TheValue(app.forwardState)
           group == TheValue(app.visualization)
       IN  /\ trace.timestep = app.timestep
           /\ RecomputedTrace(app.model, trace.noisyInput, app.timestep)
                = Present(TraceValue(Store, trace))
           /\ app.scene = {group}
           /\ group.model = app.model
           /\ group.forwardState = app.forwardState

\* the slider was moved, "New Weights" was clicked and "New Input" was
\* clicked: the application holds the second model and a timestep other than
\* the initial one, and the scene holds the fourth group only
C27_Witness ==
    /\ steps = 3
    /\ last.op = "runForwardPass"
    /\ app.model = 2
    /\ app.timestep # InitialTimestep
    /\ TheValue(app.forwardState).timestep = app.timestep
    /\ app.groups = 4
    /\ Cardinality(app.scene) = 1
    /\ TheValue(app.visualization).id = 4

----------------------------------------------------------------------------
(* downsample2x after upsample2x, under SpecOps *)

\* C28: downsample2x applied to the tensor upsample2x returned for x returns
\* a tensor of the dimensions of x with the value of x at every position
C28_DownAfterUpIsIdentity ==
    ( /\ prev.op = "upsample2x" /\ last.op = "downsample2x"
      /\ last.a = prev.t ) =>
        /\ ~prev.err /\ ~last.err
        /\ TensorValue(Store, last.t) = TensorValue(Store, prev.a)

\* a 3x3 tensor of two channels with non-zero entries was upsampled to 6x6
\* and the result downsampled to a third tensor equal to the first
C28_Witness ==
    /\ prev.op = "upsample2x" /\ last.op = "downsample2x"
    /\ last.a = prev.t
    /\ HasShape(Store, prev.a, 2, 3, 3)
    /\ HasShape(Store, prev.t, 2, 6, 6)
    /\ HasShape(Store, last.t, 2, 3, 3)
    /\ last.t # prev.a
    /\ \A c \in 0 .. 1 : At(Store, prev.a, c, 2, 2) # 0
    /\ Contents(Store, last.t) = Contents(Store, prev.a)

----------------------------------------------------------------------------
(* downsample2x on odd and empty dimensions, under SpecOps *)

\* C29: downsample2x on a well-formed tensor of any height and width, odd
\* or 0 included, returns a tensor of floor(height/2) rows and
\* floor(width/2) columns per channel, every position its loops read lies
\* inside the input, and the output is the block averages of the rows and
\* columns below 2*floor(height/2) and 2*floor(width/2): a last odd row or
\* column is not read
C29_DownsampleStaysInside ==
    [][(steps' = steps + 1 /\ last'.op = "downsample2x") =>
          LET x == tens[last'.a]
              outH == x.height \div 2
              outW == x.width \div 2
          IN  /\ ~last'.err
              /\ HasShape(StoreNext, last'.t, x.channels, outH, outW)
              /\ Downsample2xReads(x.height, x.width)
                   \subseteq (0 .. x.height - 1) \X (0 .. x.width - 1)
              /\ x.height % 2 = 1 =>
                    \A p \in Downsample2xReads(x.height, x.width) : p[1] # x.height - 1
              /\ x.width % 2 = 1 =>
                    \A p \in Downsample2xReads(x.height, x.width) : p[2] # x.width - 1
              /\ \A c \in 0 .. x.channels - 1, h \in 0 .. outH - 1,
                    w \in 0 .. outW - 1 :
                    At(StoreNext, last'.t, c, h, w) = Average2x2(Store, last'.a, c, h, w)]_vars

\* downsample2x ran on a 3x3 tensor, read four of its nine elements and
\* returned one position per channel
C29_Witness ==
    /\ last.op = "downsample2x" /\ ~last.err
    /\ tens[last.a].height = 3 /\ tens[last.a].width = 3
    /\ HasShape(Store, last.t, tens[last.a].channels, 1, 1)
    /\ Cardinality(Downsample2xReads(3, 3)) = 4
    /\ At(Store, last.t, 0, 0, 0) = Average2x2(Store, last.a, 0, 0, 0)
    /\ At(Store, last.a, 0, 2, 2) # 0

\* downsample2x ran on a tensor of one row or without rows and returned a
\* tensor without rows
C29_EmptyCases ==
    /\ last.op = "downsample2x" /\ ~last.err
    /\ tens[last.a].height <= 1
    /\ tens[last.t].height = 0

----------------------------------------------------------------------------
(* The view manager (DiamondVisualizationManager.ts): it holds a mode, the *)
(* group of the current view and the group of the animation, and adds them *)
(* to and removes them from a scene it is given.  A block name is the      *)
(* sequence of the words it contains.                                      *)

\* a THREE.Group the manager builds: a new object, numbered in the order of
\* creation
ViewGroup(v, offset, kind, content) ==
    [id |-> v.groups + offset, kind |-> kind, content |-> content]

\* an object the scene holds when the manager is given it
ForeignObject == [id |-> 0, kind |-> "foreign", content |-> "panel"]

\* blockName.includes(word)
Includes(blockName, word) == \E k \in DOMAIN blockName : blockName[k] = word

\* blocks[0] of a stage, or the bottleneck: absent when there is none
FirstBlock(blocks) == IF Len(blocks) > 0 THEN Present(blocks[1]) ELSE Absent

\* faulty variant of ClearCurrentView: the animation group is left in place
ClearCurrentViewKeepingAnimation(v) ==
    [v EXCEPT !.scene = IF IsPresent(v.currentGroup)
                        THEN v.scene \ {TheValue(v.currentGroup)} ELSE v.scene,
              !.currentGroup = Absent]

\* clearCurrentView
ClearCurrentView(v) ==
    [v EXCEPT !.scene = (v.scene \ (IF IsPresent(v.currentGroup)
                                    THEN {TheValue(v.currentGroup)} ELSE {}))
                          \ (IF IsPresent(v.animationGroup)
                             THEN {TheValue(v.animationGroup)} ELSE {}),
              !.currentGroup = Absent,
              !.animationGroup = Absent]

\* a call's outcome: the fields it leaves, and whether it threw
Shown(v) == [v |-> v, err |-> FALSE]

\* the group becomes the current one and is added to the scene
AddCurrent(v, group) ==
    [v EXCEPT !.currentGroup = Present(group),
              !.scene = v.scene \cup {group},
              !.groups = v.groups + 1]

ShowArchitectureView(v) ==
    Bind([ClearCurrentView(v) EXCEPT !.currentMode = "architecture"], LAMBDA c :
        Shown(AddCurrent(c, ViewGroup(c, 1, "architecture", "model"))))

ShowWeightView(v, blockName) ==
    Bind([ClearCurrentView(v) EXCEPT !.currentMode = "weights",
                                     !.selectedBlockName = Present(blockName)],
         LAMBDA c :
    Bind(IF Includes(blockName, "Encoder") THEN FirstBlock(c.model.encoder)
         ELSE IF Includes(blockName, "Bottleneck") THEN Present(c.model.bottleneck)
         ELSE IF Includes(blockName, "Decoder") THEN FirstBlock(c.model.decoder)
         ELSE Absent,
         LAMBDA block :
        IF IsPresent(block)
        THEN Shown(AddCurrent(c, ViewGroup(c, 1, "detail", TheValue(block))))
        ELSE Shown(c)))

\* showActivationView; createFeatureMapVisualization takes the channel
\* min(channelIndex, channels - 1) and throws when the feature map has no
\* such channel
ShowActivationView(v, channels, channelIndex) ==
    Bind([ClearCurrentView(v) EXCEPT !.currentMode = "activations"], LAMBDA c :
    Bind(IF channelIndex < channels - 1 THEN channelIndex ELSE channels - 1,
         LAMBDA channel :
        IF channel < 0 THEN [v |-> c, err |-> TRUE]
        ELSE Shown(AddCurrent(c, ViewGroup(c, 1, "activation",
                                           IF channel = 0 THEN "channel 0"
                                           ELSE "channel 1")))))

\* showAnimationView: the architecture as base, then the group of the
\* particle flows; now is the value of performance.now()
ShowAnimationView(v, now) ==
    Bind([ClearCurrentView(v) EXCEPT !.currentMode = "animation"], LAMBDA c :
    Bind(AddCurrent(c, ViewGroup(c, 1, "architecture", "model")), LAMBDA base :
        Shown([base EXCEPT
                 !.animationGroup = Present(ViewGroup(base, 1, "animation", "flows")),
                 !.scene = base.scene \cup {ViewGroup(base, 1, "animation", "flows")},
                 !.groups = base.groups + 1,
                 !.lastTime = now])))

HandleBlockClick(v, blockName) ==
    IF v.currentMode = "architecture" THEN ShowWeightView(v, blockName)
    ELSE ShowArchitectureView(v)

\* cycleMode: modes = [ARCHITECTURE, ANIMATION], the mode after the current
\* one, and the first when the current one is not in the list (indexOf
\* returns -1)
CycleMode(v, now) ==
    LET modes == << "architecture", "animation" >>
        currentIndex == IF \E k \in 1 .. 2 : modes[k] = v.currentMode
                        THEN (CHOOSE k \in 1 .. 2 : modes[k] = v.currentMode) - 1
                        ELSE -1
        nextMode == modes[((currentIndex + 1) % 2) + 1]
    IN  IF nextMode = "architecture" THEN ShowArchitectureView(v)
        ELSE ShowAnimationView(v, now)

Dispose(v) == Shown(ClearCurrentView(v))

\* the models the manager is given: one block per stage, and a model whose
\* encoder has no block
ViewModels ==
    { [encoder |-> << "encoder block" >>, bottleneck |-> "bottleneck block",
       decoder |-> << "decoder block" >>],
      [encoder |-> << >>, bottleneck |-> "bottleneck block",
       decoder |-> << "decoder block" >>] }

\* the block names clicked
BlockNames ==
    { << "Encoder", "Block" >>, << "Bottleneck" >>, << "Decoder", "Block" >>,
      << "Output", "Conv" >> }

\* the channel counts of the feature maps and the channel indices passed
\* to showActivationView
FeatureChannels == {1, 2}
ChannelIndices == {-1, 0, 1, 5}

\* the constructor, on a scene that is empty or holds another object
InitView ==
    /\ \E model \in ViewModels, scene \in {{}, {ForeignObject}} :
          view = ShowArchitectureView([NoView EXCEPT !.model = model,
                                                     !.scene = scene]).v
    /\ StartsAs(EmptyStore(0))
    /\ last = NoCall
    /\ prev = NoCall
    /\ steps = 0
    /\ app = NoApp

\* the call ran: the fields it leaves and the call made
Viewed(op, r) ==
    /\ view' = r.v
    /\ last' = Call(op, 0, 0, 0, "", 0, 0, 0, Absent, r.err)
    /\ prev' = last
    /\ steps' = steps + 1
    /\ UNCHANGED <<rows, chans, tens, models, rng, app>>

CallShowArchitectureView ==
    /\ steps < MaxViewSteps
    /\ Viewed("showArchitectureView", ShowArchitectureView(view))

CallShowWeightView ==
    /\ steps < MaxViewSteps
    /\ \E blockName \in BlockNames :
          Viewed("showWeightView", ShowWeightView(view, blockName))

CallShowActivationView ==
    /\ steps < MaxViewSteps
    /\ \E channels \in FeatureChannels, channelIndex \in ChannelIndices :
          Viewed("showActivationView",
                 ShowActivationView(view, channels, channelIndex))

CallShowAnimationView ==
    /\ steps < MaxViewSteps
    /\ Viewed("showAnimationView", ShowAnimationView(view, steps + 1))

CallHandleBlockClick ==
    /\ steps < MaxViewSteps
    /\ \E blockName \in BlockNames :
          Viewed("handleBlockClick", HandleBlockClick(view, blockName))

CallCycleMode ==
    /\ steps < MaxViewSteps
    /\ Viewed("cycleMode", CycleMode(view, steps + 1))

CallDispose ==
    /\ steps < MaxViewSteps
    /\ Viewed("dispose", Dispose(view))

NextView ==
    \/ CallShowArchitectureView
    \/ CallShowWeightView
    \/ CallShowActivationView
    \/ CallShowAnimationView
    \/ CallHandleBlockClick
    \/ CallCycleMode
    \/ CallDispose

SpecView == InitView /\ [][NextView]_vars

\* the groups of the scene that the manager added
AddedByManager == view.scene \ {ForeignObject}

\* the manager's groups in the scene are the current group, if any, and
\* the animation group, if any, and there is an animation group in the
\* mode ANIMATION only
OneViewAtATime ==
    /\ AddedByManager
         = (IF IsPresent(view.currentGroup) THEN {TheValue(view.currentGroup)} ELSE {})
           \cup (IF IsPresent(view.animationGroup)
                 THEN {TheValue(view.animationGroup)} ELSE {})
    /\ Cardinality(AddedByManager \ (IF IsPresent(view.animationGroup)
                                     THEN {TheValue(view.animationGroup)} ELSE {})) <= 1
    /\ IsPresent(view.animationGroup) => view.currentMode = "animation"

\* C30: after the constructor and after every call of a show method, of
\* handleBlockClick, cycleMode or dispose, the scene holds of the manager's
\* groups the one referenced by currentGroup, if any, and the animation
\* group, which exists in the mode ANIMATION only; and no group the manager
\* had in the scene before a call is in the scene after it
C30_OneViewAtATime ==
    /\ OneViewAtATime
    /\ [][ /\ OneViewAtATime'
           /\ steps' = steps + 1 =>
                 (view.scene \ {ForeignObject}) \cap view'.scene = {} ]_vars

\* the animation view was shown and then left by a click on a block: the
\* scene holds the new architecture group and the object it held before
\* the manager was built, and no animation group
C30_Witness ==
    /\ prev.op = "showAnimationView" /\ last.op = "handleBlockClick"
    /\ view.currentMode = "architecture"
    /\ ~IsPresent(view.animationGroup)
    /\ view.groups = 4
    /\ view.scene = {ForeignObject, TheValue(view.currentGroup)}
    /\ TheValue(view.currentGroup).id = 4

====
